---- MODULE Spec2Model ----
(***************************************************************************)
(* OAuth token acquisition of agent-mcp (src/src/agent_mcp/oauth.py):      *)
(*   FileTokenStorage     the per-server record file on disk               *)
(*   OAuthCallbackServer  the loopback listener, its thread and its future *)
(*   ensure_oauth_token   cache lookup, handshake, cleanup                 *)
(* and, beside it, ConnectionManager (mcp_client.py) and run_agent         *)
(* (agent.py).                                                             *)
(* The specifications share the variables:                                 *)
(*   SpecStore         the storage operations called directly              *)
(*   SpecCallback      one callback server driven by GET requests          *)
(*   SpecCallbackLive  SpecCallback with a fairly scheduled listener       *)
(*   Spec              ensure_oauth_token calls awaited one after another, *)
(*                     with _reauth and other writers of the record files  *)
(*   SpecConcurrent    ensure_oauth_token calls for one server running     *)
(*                     concurrently on one event loop                      *)
(*   SpecWriters       processes inside set_tokens and set_client_info,    *)
(*                     read, write_text and chmod as separate steps        *)
(*   SpecConnect       ConnectionManager.connect calls awaited in turn     *)
(*   SpecConnectConcurrent  connect calls of several tasks on one loop     *)
(*   SpecAgent         one run_agent call                                  *)
(***************************************************************************)
EXTENDS Naturals, Sequences, FiniteSets, TLC

VARIABLES
    file,       \* file[s]: the record file <token_dir>/<s>.json
    storeRet,   \* outcome of the last FileTokenStorage call made directly
    srv,        \* srv[i]: listener of callback server i (thread, flags, the request
                \* in the handler, responses sent)
    future,     \* future[i]: parent._future of callback server i
    ready,      \* the event loop's queue of callbacks (call_soon_threadsafe)
    call,       \* call[c]: the ensure_oauth_token call that task c runs
    writer,     \* writer[w]: a process inside set_tokens or set_client_info
    mgr,        \* the ConnectionManager: its sessions and the connect calls on it
    agent       \* the run_agent call: its loop position, messages and outcome

vars == <<file, storeRet, srv, future, ready, call, writer, mgr, agent>>

(***************************************************************************)
(* Bounds and value sets                                                   *)
(***************************************************************************)
MaxTasks == 2       \* ensure_oauth_token calls in progress at the same time
MaxRequests == 2    \* GET requests one callback server receives
MaxParams == 2      \* query parameters of one GET request
MaxConnects == 2    \* sessions one ConnectionManager opens in its lifetime
MaxIterations == 2  \* largest app_config.max_iterations
MaxBlocks == 2      \* content blocks of one model response

ServerNames == {"s1", "s2"}

None == <<>>
Some(x) == <<x>>

(***************************************************************************)
(* Credential (OAuthToken) and ClientRegistration (OAuthClientInformation- *)
(* Full), reduced to the fields of the persisted record.                   *)
(***************************************************************************)
Credentials ==
    { [access_token |-> a, token_type |-> "Bearer", expires_in |-> x[1],
       scope |-> None, refresh_token |-> x[2]] :
        a \in {"tokA", "tokB"},
        x \in { <<None, None>>, <<Some(3600), Some("refresh")>> } }

ClientInfos ==
    { [client_id |-> "cidA", client_secret |-> Some("csec"),
       redirect_uris |-> <<"http://localhost/cb">>],
      [client_id |-> "cidB", client_secret |-> None,
       redirect_uris |-> <<"http://localhost/cb">>] }

(***************************************************************************)
(* JSON values.  A field value is null, a string, an integer or a list of  *)
(* strings; an object is a function from its keys to field values.         *)
(***************************************************************************)
JNull == [t |-> "null", s |-> "", n |-> 0, l |-> <<>>]
JStr(x) == [t |-> "str", s |-> x, n |-> 0, l |-> <<>>]
JInt(k) == [t |-> "int", s |-> "", n |-> k, l |-> <<>>]
JList(q) == [t |-> "list", s |-> "", n |-> 0, l |-> q]

JOptStr(o) == IF o = None THEN JNull ELSE JStr(o[1])
JOptInt(o) == IF o = None THEN JNull ELSE JInt(o[1])

EntryNull == [kind |-> "null"]
EntryStr == [kind |-> "str"]
EntryObj(o) == [kind |-> "obj", obj |-> o]

\* dict.get(key): the value, or None when the key is missing
Get(o, key) == IF key \in DOMAIN o THEN o[key] ELSE JNull

\* tokens.model_dump(): every field of the model, None for an unset one
TokensDump(c) ==
    EntryObj([access_token |-> JStr(c.access_token),
              token_type |-> JStr(c.token_type),
              expires_in |-> JOptInt(c.expires_in),
              scope |-> JOptStr(c.scope),
              refresh_token |-> JOptStr(c.refresh_token)])

\* client_info.model_dump(mode="json")
ClientInfoDump(ci) ==
    EntryObj([client_id |-> JStr(ci.client_id),
              client_secret |-> JOptStr(ci.client_secret),
              redirect_uris |-> JList(ci.redirect_uris)])

IsOptStr(v) == v.t \in {"null", "str"}
IsOptInt(v) == v.t \in {"null", "int"}
OptStrOf(v) == IF v.t = "str" THEN Some(v.s) ELSE None
OptIntOf(v) == IF v.t = "int" THEN Some(v.n) ELSE None

\* OAuthToken.model_validate(raw) succeeds
TokensValid(raw) ==
    /\ raw.kind = "obj"
    /\ Get(raw.obj, "access_token").t = "str"
    /\ \/ "token_type" \notin DOMAIN raw.obj
       \/ raw.obj["token_type"] = JStr("Bearer")
    /\ IsOptInt(Get(raw.obj, "expires_in"))
    /\ IsOptStr(Get(raw.obj, "scope"))
    /\ IsOptStr(Get(raw.obj, "refresh_token"))

\* the OAuthToken that model_validate(raw) builds
TokensOf(raw) ==
    [access_token |-> raw.obj["access_token"].s,
     token_type |-> "Bearer",
     expires_in |-> OptIntOf(Get(raw.obj, "expires_in")),
     scope |-> OptStrOf(Get(raw.obj, "scope")),
     refresh_token |-> OptStrOf(Get(raw.obj, "refresh_token"))]

\* OAuthClientInformationFull.model_validate(raw) succeeds
ClientInfoValid(raw) ==
    /\ raw.kind = "obj"
    /\ Get(raw.obj, "client_id").t = "str"
    /\ IsOptStr(Get(raw.obj, "client_secret"))
    /\ Get(raw.obj, "redirect_uris").t = "list"

ClientInfoOf(raw) ==
    [client_id |-> raw.obj["client_id"].s,
     client_secret |-> OptStrOf(Get(raw.obj, "client_secret")),
     redirect_uris |-> raw.obj["redirect_uris"].l]

(***************************************************************************)
(* The record file: absent, or a mode and a content.  The content is bytes *)
(* that are no text, text that is no JSON, or the JSON value the text      *)
(* denotes (json.dumps / json.loads carry that value unchanged).           *)
(***************************************************************************)
NoFile == [exists |-> FALSE, mode |-> "none", data |-> [kind |-> "none"]]

DataNonUtf8 == [kind |-> "nonutf8"]
DataBadJson == [kind |-> "badjson"]
DataJson(top) == [kind |-> "json", top |-> top]

TopList == [kind |-> "list"]
TopObj(o) == [kind |-> "obj", obj |-> o]
EmptyDict == TopObj(<<>>)

\* the permission bits the model distinguishes; the process runs as the owner
OwnerReadable(mode) == mode \in {"0600", "0644", "0666", "0444"}
OwnerWritable(mode) == mode \in {"0600", "0644", "0666", "0200"}

\* mode of a file that open(..., "w") creates: 0666 masked by the umask
CreateModes == {"0600", "0644", "0666"}

\* The outcome of a call: a returned value (None: nothing) or a raised exception
\* with the parts of its message.
Raise(e) == [kind |-> "raise", exc |-> e, msg |-> <<>>, val |-> None]
RaiseMsg(e, m) == [kind |-> "raise", exc |-> e, msg |-> m, val |-> None]
Return(v) == [kind |-> "return", exc |-> "", msg |-> <<>>, val |-> Some(v)]
ReturnNone == [kind |-> "return", exc |-> "", msg |-> <<>>, val |-> None]

\* dict with data[key] = v
SetKey(o, key, v) == [k \in DOMAIN o \cup {key} |-> IF k = key THEN v ELSE o[k]]

(***************************************************************************)
(* FileTokenStorage.  Each operation maps the file to its outcome (and,    *)
(* for a write, to the file afterwards).                                   *)
(***************************************************************************)
\* _read: FileNotFoundError, JSONDecodeError and OSError give {};
\* UnicodeDecodeError (a ValueError) is not among them
_read(f) ==
    IF ~f.exists THEN Return(EmptyDict)
    ELSE IF ~OwnerReadable(f.mode) THEN Return(EmptyDict)
    ELSE IF f.data.kind = "nonutf8" THEN Raise("UnicodeDecodeError")
    ELSE IF f.data.kind = "badjson" THEN Return(EmptyDict)
    ELSE Return(f.data.top)

\* Path.write_text: creates the file with the umask's mode, or keeps the mode
WriteText(f, top, cmode) ==
    [exists |-> TRUE,
     mode |-> IF f.exists THEN f.mode ELSE cmode,
     data |-> DataJson(top)]

Chmod(f, mode) == [f EXCEPT !.mode = mode]

\* _write with the chmod call left out
_write_without_chmod(f, top, cmode) ==
    IF f.exists /\ ~OwnerWritable(f.mode)
    THEN [out |-> Raise("PermissionError"), file |-> f]
    ELSE [out |-> ReturnNone, file |-> WriteText(f, top, cmode)]

\* _write: mkdir, write_text, chmod 0600
_write(f, top, cmode) ==
    IF f.exists /\ ~OwnerWritable(f.mode)
    THEN [out |-> Raise("PermissionError"), file |-> f]
    ELSE [out |-> ReturnNone, file |-> Chmod(WriteText(f, top, cmode), "0600")]

\* get_tokens looking up the key "token"
get_tokens_wrong_key(f) ==
    LET r == _read(f) IN
    IF r.kind = "raise" THEN r
    ELSE LET d == r.val[1] IN
        IF d.kind # "obj" THEN Raise("AttributeError")
        ELSE IF "token" \notin DOMAIN d.obj THEN ReturnNone
        ELSE IF d.obj["token"].kind = "null" THEN ReturnNone
        ELSE IF TokensValid(d.obj["token"]) THEN Return(TokensOf(d.obj["token"]))
        ELSE ReturnNone

get_tokens(f) ==
    LET r == _read(f) IN
    IF r.kind = "raise" THEN r
    ELSE LET d == r.val[1] IN
        IF d.kind # "obj" THEN Raise("AttributeError")
        ELSE IF "tokens" \notin DOMAIN d.obj THEN ReturnNone
        ELSE IF d.obj["tokens"].kind = "null" THEN ReturnNone
        ELSE IF TokensValid(d.obj["tokens"]) THEN Return(TokensOf(d.obj["tokens"]))
        ELSE ReturnNone

\* set_tokens writing a record that holds the tokens entry alone
set_tokens_dropping_siblings(f, tokens, cmode) ==
    LET r == _read(f) IN
    IF r.kind = "raise" THEN [out |-> r, file |-> f]
    ELSE LET d == r.val[1] IN
        IF d.kind # "obj" THEN [out |-> Raise("TypeError"), file |-> f]
        ELSE _write(f, TopObj(SetKey(<<>>, "tokens", TokensDump(tokens))), cmode)

set_tokens(f, tokens, cmode) ==
    LET r == _read(f) IN
    IF r.kind = "raise" THEN [out |-> r, file |-> f]
    ELSE LET d == r.val[1] IN
        IF d.kind # "obj" THEN [out |-> Raise("TypeError"), file |-> f]
        ELSE _write(f, TopObj(SetKey(d.obj, "tokens", TokensDump(tokens))), cmode)

get_client_info(f) ==
    LET r == _read(f) IN
    IF r.kind = "raise" THEN r
    ELSE LET d == r.val[1] IN
        IF d.kind # "obj" THEN Raise("AttributeError")
        ELSE IF "client_info" \notin DOMAIN d.obj THEN ReturnNone
        ELSE IF d.obj["client_info"].kind = "null" THEN ReturnNone
        ELSE IF ClientInfoValid(d.obj["client_info"])
             THEN Return(ClientInfoOf(d.obj["client_info"]))
        ELSE ReturnNone

\* set_client_info writing a record that holds the client_info entry alone
set_client_info_dropping_siblings(f, client_info, cmode) ==
    LET r == _read(f) IN
    IF r.kind = "raise" THEN [out |-> r, file |-> f]
    ELSE LET d == r.val[1] IN
        IF d.kind # "obj" THEN [out |-> Raise("TypeError"), file |-> f]
        ELSE _write(f, TopObj(SetKey(<<>>, "client_info", ClientInfoDump(client_info))),
                    cmode)

set_client_info(f, client_info, cmode) ==
    LET r == _read(f) IN
    IF r.kind = "raise" THEN [out |-> r, file |-> f]
    ELSE LET d == r.val[1] IN
        IF d.kind # "obj" THEN [out |-> Raise("TypeError"), file |-> f]
        ELSE _write(f, TopObj(SetKey(d.obj, "client_info", ClientInfoDump(client_info))),
                    cmode)

(***************************************************************************)
(* Files another program (or a test) may leave at the record's path.       *)
(***************************************************************************)
\* {"access_token": ..., "token_type": "Bearer"}, as test_returns_cached_token writes it
MinimalTokens(a) ==
    EntryObj([k \in {"access_token", "token_type"} |->
                 IF k = "access_token" THEN JStr(a) ELSE JStr("Bearer")])

RichCredential ==
    [access_token |-> "tokB", token_type |-> "Bearer", expires_in |-> Some(3600),
     scope |-> None, refresh_token |-> Some("refresh")]

SeedTokenEntries == { EntryNull, EntryStr, MinimalTokens("tokA"), TokensDump(RichCredential) }

SeedClientEntries ==
    { EntryStr,
      ClientInfoDump([client_id |-> "cidA", client_secret |-> Some("csec"),
                      redirect_uris |-> <<"http://localhost/cb">>]) }

SeedObjects ==
    { [k \in ks |-> IF k = "tokens" THEN e[1] ELSE e[2]] :
        ks \in SUBSET {"tokens", "client_info"},
        e \in SeedTokenEntries \X SeedClientEntries }

SeedData ==
    { DataNonUtf8, DataBadJson, DataJson(TopList) }
        \cup { DataJson(TopObj(o)) : o \in SeedObjects }

FullRecord ==
    DataJson(TopObj([k \in {"tokens", "client_info"} |->
        IF k = "tokens" THEN TokensDump(RichCredential)
        ELSE ClientInfoDump([client_id |-> "cidA", client_secret |-> Some("csec"),
                             redirect_uris |-> <<"http://localhost/cb">>])]))

\* absent, any seed content with the mode a default umask gives, or a full
\* record that the owner may not read, not write, or neither
SeedFiles ==
    { NoFile }
        \cup { [exists |-> TRUE, mode |-> m, data |-> FullRecord] :
                    m \in {"0000", "0200", "0444"} }
        \cup { [exists |-> TRUE, mode |-> "0644", data |-> d] : d \in SeedData }

(***************************************************************************)
(* OAuthCallbackServer.  Callback server i has a listener thread running   *)
(* HTTPServer.serve_forever, the flags of socketserver.BaseServer, and a   *)
(* future that only the event loop resolves.                               *)
(***************************************************************************)
Instances == 1..MaxTasks

\* name=value pairs of a query string; "" is a blank value (code=)
QueryParams ==
    { <<"code", "x">>, <<"code", "y">>, <<"code", "">>,
      <<"state", "y">>, <<"error", "x">>, <<"error", "">> }

RECURSIVE SeqsUpTo(_, _)
SeqsUpTo(S, n) ==
    IF n = 0 THEN { <<>> }
    ELSE LET shorter == SeqsUpTo(S, n - 1) IN
         shorter \cup { Append(q, e) : q \in shorter, e \in S }

Queries == SeqsUpTo(QueryParams, MaxParams)

\* GET <path>?<query>: the redirect URI's path, or another path that a
\* browser asks for by itself
Requests ==
    { [path |-> "/callback", query |-> q] : q \in Queries }
        \cup { [path |-> "/favicon.ico", query |-> q] : q \in { r \in Queries : Len(r) <= 1 } }

\* parse_qs(query).get(key): the non-blank values of key in order, None if none
RECURSIVE QsGet(_, _)
QsGet(query, key) ==
    IF query = <<>> THEN <<>>
    ELSE LET p == Head(query) IN
         (IF p[1] = key /\ p[2] # "" THEN <<p[2]>> ELSE <<>>) \o QsGet(Tail(query), key)

Response(status, page, error) == [status |-> status, page |-> page, error |-> error]

NoCallback == [fn |-> "none", code |-> "", state |-> None, error |-> ""]
SetResult(code, state) == [fn |-> "set_result", code |-> code, state |-> state, error |-> ""]
SetException(error) == [fn |-> "set_exception", code |-> "", state |-> None, error |-> error]

\* do_GET with the state defaulting to "" where the code has None
do_GET_state_defaults_to_empty(req) ==
    LET code_list == QsGet(req.query, "code")
        state_list == QsGet(req.query, "state")
        error_list == QsGet(req.query, "error")
    IN  IF error_list # <<>>
        THEN [resp |-> Response(400, "failed", error_list[1]),
              cb |-> SetException(error_list[1])]
        ELSE IF code_list = <<>>
        THEN [resp |-> Response(400, "failed", "Missing code parameter"),
              cb |-> NoCallback]
        ELSE [resp |-> Response(200, "success", ""),
              cb |-> SetResult(code_list[1],
                               IF state_list # <<>> THEN Some(state_list[1]) ELSE Some(""))]

\* do_GET raising a RuntimeError that does not embed the error value
do_GET_error_without_value(req) ==
    LET code_list == QsGet(req.query, "code")
        state_list == QsGet(req.query, "state")
        error_list == QsGet(req.query, "error")
    IN  IF error_list # <<>>
        THEN [resp |-> Response(400, "failed", error_list[1]),
              cb |-> SetException("")]
        ELSE IF code_list = <<>>
        THEN [resp |-> Response(400, "failed", "Missing code parameter"),
              cb |-> NoCallback]
        ELSE [resp |-> Response(200, "success", ""),
              cb |-> SetResult(code_list[1],
                               IF state_list # <<>> THEN Some(state_list[1]) ELSE None)]

\* do_GET rejecting the future when the code is missing
do_GET_missing_code_rejects(req) ==
    LET code_list == QsGet(req.query, "code")
        state_list == QsGet(req.query, "state")
        error_list == QsGet(req.query, "error")
    IN  IF error_list # <<>>
        THEN [resp |-> Response(400, "failed", error_list[1]),
              cb |-> SetException(error_list[1])]
        ELSE IF code_list = <<>>
        THEN [resp |-> Response(400, "failed", "Missing code parameter"),
              cb |-> SetException("Missing code parameter")]
        ELSE [resp |-> Response(200, "success", ""),
              cb |-> SetResult(code_list[1],
                               IF state_list # <<>> THEN Some(state_list[1]) ELSE None)]

\* do_GET looking at the code before the error
do_GET_code_first(req) ==
    LET code_list == QsGet(req.query, "code")
        state_list == QsGet(req.query, "state")
        error_list == QsGet(req.query, "error")
    IN  IF code_list # <<>>
        THEN [resp |-> Response(200, "success", ""),
              cb |-> SetResult(code_list[1],
                               IF state_list # <<>> THEN Some(state_list[1]) ELSE None)]
        ELSE IF error_list # <<>>
        THEN [resp |-> Response(400, "failed", error_list[1]),
              cb |-> SetException(error_list[1])]
        ELSE [resp |-> Response(400, "failed", "Missing code parameter"),
              cb |-> NoCallback]

\* _Handler.do_GET up to the page written: the response and the callback it
\* is about to hand to the event loop
do_GET(req) ==
    LET code_list == QsGet(req.query, "code")
        state_list == QsGet(req.query, "state")
        error_list == QsGet(req.query, "error")
    IN  IF error_list # <<>>
        THEN [resp |-> Response(400, "failed", error_list[1]),
              cb |-> SetException(error_list[1])]
        ELSE IF code_list = <<>>
        THEN [resp |-> Response(400, "failed", "Missing code parameter"),
              cb |-> NoCallback]
        ELSE [resp |-> Response(200, "success", ""),
              cb |-> SetResult(code_list[1],
                               IF state_list # <<>> THEN Some(state_list[1]) ELSE None)]

PendingFuture == [state |-> "pending", code |-> "", st |-> None, error |-> ""]

\* set_result / set_exception that would overwrite a future that is done
ApplyCallback_overwriting(fut, cb) ==
    IF cb.fn = "set_result"
    THEN [state |-> "result", code |-> cb.code, st |-> cb.state, error |-> ""]
    ELSE [state |-> "exception", code |-> "", st |-> None, error |-> cb.error]

\* asyncio.Future.set_result / set_exception, run by the event loop: a future
\* that is done raises InvalidStateError into the loop's handler and keeps its value
ApplyCallback(fut, cb) ==
    IF fut.state # "pending" THEN fut
    ELSE IF cb.fn = "set_result"
    THEN [state |-> "result", code |-> cb.code, st |-> cb.state, error |-> ""]
    ELSE [state |-> "exception", code |-> "", st |-> None, error |-> cb.error]

\* wait_for_callback once the future is done
wait_for_callback(fut) ==
    IF fut.state = "result" THEN Return(<<fut.code, fut.st>>)
    ELSE RaiseMsg("RuntimeError", <<"OAuth error: ", fut.error>>)

NoServer ==
    [thread |-> "none", shutdownRequest |-> FALSE, isShutDown |-> FALSE,
     stop |-> "no", req |-> None, resps |-> <<>>, cb |-> NoCallback, waited |-> None]

\* OAuthCallbackServer.__init__: socket bound, thread object created, not started
NewServer == [NoServer EXCEPT !.thread = "new"]

\* the event-loop thread is inside a blocking stop()
LoopBlocked == \E i \in Instances : srv[i].stop = "waiting"

\* start(): the listener thread is started; serve_forever has not run yet
start(i) ==
    /\ srv[i].thread = "new"
    /\ srv' = [srv EXCEPT ![i].thread = "started"]

\* stop(): BaseServer.shutdown sets the request flag and waits for the event
stop(i) ==
    /\ srv[i].thread # "none"
    /\ srv[i].stop = "no"
    /\ srv' = [srv EXCEPT ![i].shutdownRequest = TRUE, ![i].stop = "waiting"]

\* shutdown() returns once serve_forever has set the event
stop_returns(i) ==
    /\ srv[i].stop = "waiting"
    /\ srv[i].isShutDown
    /\ srv' = [srv EXCEPT ![i].stop = "done"]

\* listener thread: serve_forever clears the event and enters its loop
ThreadEnter(i) ==
    /\ srv[i].thread = "started"
    /\ srv' = [srv EXCEPT ![i].thread = "serving", ![i].isShutDown = FALSE]
    /\ UNCHANGED <<file, storeRet, future, ready, call, writer, mgr, agent>>

\* a listener that still takes a request after shutdown() was called
HandleRequest_after_shutdown(i, req) ==
    /\ srv[i].thread = "serving"
    /\ Len(srv[i].resps) < MaxRequests
    /\ srv' = [srv EXCEPT ![i].thread = "handling",
                          ![i].req = Some(req),
                          ![i].resps = Append(@, do_GET(req).resp),
                          ![i].cb = do_GET(req).cb]
    /\ UNCHANGED <<file, storeRet, future, ready, call, writer, mgr, agent>>

\* listener thread: one GET request read and answered by do_GET
HandleRequest(i, req) ==
    /\ srv[i].thread = "serving"
    /\ ~srv[i].shutdownRequest
    /\ Len(srv[i].resps) < MaxRequests
    /\ srv' = [srv EXCEPT ![i].thread = "handling",
                          ![i].req = Some(req),
                          ![i].resps = Append(@, do_GET(req).resp),
                          ![i].cb = do_GET(req).cb]
    /\ UNCHANGED <<file, storeRet, future, ready, call, writer, mgr, agent>>

\* listener thread: do_GET hands its callback to the loop
\* (call_soon_threadsafe) and returns
\* a handler that sets the future itself instead of scheduling the write
HandlerReturn_setting_directly(i) ==
    /\ srv[i].thread = "handling"
    /\ future' = IF srv[i].cb.fn = "none" THEN future
                 ELSE [future EXCEPT ![i] = ApplyCallback(@, srv[i].cb)]
    /\ srv' = [srv EXCEPT ![i].thread = "serving", ![i].req = None, ![i].cb = NoCallback]
    /\ UNCHANGED <<file, storeRet, ready, call, writer, mgr, agent>>

HandlerReturn(i) ==
    /\ srv[i].thread = "handling"
    /\ ready' = IF srv[i].cb.fn = "none" THEN ready
                ELSE Append(ready, [srv |-> i, cb |-> srv[i].cb])
    /\ srv' = [srv EXCEPT ![i].thread = "serving", ![i].req = None, ![i].cb = NoCallback]
    /\ UNCHANGED <<file, storeRet, future, call, writer, mgr, agent>>

\* serve_forever leaving at once, with the handler's request unfinished
ThreadExit_interrupting(i) ==
    /\ srv[i].thread \in {"serving", "handling"}
    /\ srv[i].shutdownRequest
    /\ srv' = [srv EXCEPT ![i].thread = "exited",
                          ![i].shutdownRequest = FALSE,
                          ![i].isShutDown = TRUE]
    /\ UNCHANGED <<file, storeRet, future, ready, call, writer, mgr, agent>>

\* serve_forever leaving its loop without setting the event
ThreadExit_without_event(i) ==
    /\ srv[i].thread = "serving"
    /\ srv[i].shutdownRequest
    /\ srv' = [srv EXCEPT ![i].thread = "exited",
                          ![i].shutdownRequest = FALSE]
    /\ UNCHANGED <<file, storeRet, future, ready, call, writer, mgr, agent>>

\* listener thread: serve_forever sees the request flag, leaves its loop,
\* resets the flag and sets the event
ThreadExit(i) ==
    /\ srv[i].thread = "serving"
    /\ srv[i].shutdownRequest
    /\ srv' = [srv EXCEPT ![i].thread = "exited",
                          ![i].shutdownRequest = FALSE,
                          ![i].isShutDown = TRUE]
    /\ UNCHANGED <<file, storeRet, future, ready, call, writer, mgr, agent>>

\* event loop: runs the oldest scheduled callback
LoopRun ==
    /\ ~LoopBlocked
    /\ ready # <<>>
    /\ future' = [future EXCEPT ![Head(ready).srv] = ApplyCallback(@, Head(ready).cb)]
    /\ ready' = Tail(ready)
    /\ UNCHANGED <<file, storeRet, srv, call, writer, mgr, agent>>

(***************************************************************************)
(* SpecCallback: one callback server used as tests/test_oauth.py uses it.  *)
(***************************************************************************)
TestInstance == 1

TestStart ==
    /\ ~LoopBlocked
    /\ start(TestInstance)
    /\ UNCHANGED <<file, storeRet, future, ready, call, writer, mgr, agent>>

TestStop ==
    /\ ~LoopBlocked
    /\ srv[TestInstance].thread # "new"
    /\ stop(TestInstance)
    /\ UNCHANGED <<file, storeRet, future, ready, call, writer, mgr, agent>>

TestStopReturns ==
    /\ stop_returns(TestInstance)
    /\ UNCHANGED <<file, storeRet, future, ready, call, writer, mgr, agent>>

\* the test awaits wait_for_callback until the future is done
TestAwait ==
    /\ ~LoopBlocked
    /\ srv[TestInstance].thread # "none"
    /\ srv[TestInstance].waited = None
    /\ future[TestInstance].state # "pending"
    /\ srv' = [srv EXCEPT ![TestInstance].waited =
                              Some(wait_for_callback(future[TestInstance]))]
    /\ UNCHANGED <<file, storeRet, future, ready, call, writer, mgr, agent>>

IdleCall ==
    [pc |-> "idle", name |-> "", out |-> ReturnNone, hit |-> FALSE,
     nserver |-> 0, npost |-> 0, got |-> None]

NoStoreCall == [op |-> "none", name |-> "", out |-> ReturnNone]

\* a process that is in no storage call
IdleWriter == [pc |-> "idle", op |-> "none", name |-> "", top |-> EmptyDict, out |-> ReturnNone]

\* no run_agent call
IdleAgent ==
    [pc |-> "idle", name |-> "", max_iterations |-> None, ncalls |-> 0,
     response |-> None, pending |-> <<>>, tool_results |-> <<>>, nmessages |-> 0,
     out |-> ReturnNone]

\* ConnectionManager.__init__: no session, nothing on the exit stack
IdleConnect == [pc |-> "idle", name |-> "", transport |-> "", out |-> ReturnNone]
NewManager ==
    [sessions |-> [s \in ServerNames |-> 0],
     opened |-> [s \in ServerNames |-> 0],
     nsessions |-> 0,
     task |-> [c \in Instances |-> IdleConnect]]

\* the parts of the state a specification does not use
NoWriters == writer = [w \in Instances |-> IdleWriter]
NoManager == mgr = NewManager
NoAgent == agent = IdleAgent

InitCallback ==
    /\ file = [s \in ServerNames |-> NoFile]
    /\ storeRet = NoStoreCall
    /\ srv = [i \in Instances |-> IF i = TestInstance THEN NewServer ELSE NoServer]
    /\ future = [i \in Instances |-> PendingFuture]
    /\ ready = <<>>
    /\ call = [c \in Instances |-> IdleCall]
    /\ NoWriters /\ NoManager /\ NoAgent

NextCallback ==
    \/ TestStart
    \/ ThreadEnter(TestInstance)
    \/ \E req \in Requests : HandleRequest(TestInstance, req)
    \/ HandlerReturn(TestInstance)
    \/ ThreadExit(TestInstance)
    \/ LoopRun
    \/ TestAwait
    \/ TestStop
    \/ TestStopReturns

SpecCallback == InitCallback /\ [][NextCallback]_vars

\* The listener is a started thread of its own: the operating system runs it,
\* so serve_forever is entered, a handler that has read its request returns,
\* and the loop is left once the request flag is seen; a thread waiting in
\* shutdown() wakes when the event is set.  Nothing is assumed about
\* requests arriving or about the event loop running its callbacks.
SpecCallbackLive ==
    /\ SpecCallback
    /\ WF_vars(ThreadEnter(TestInstance))
    /\ WF_vars(HandlerReturn(TestInstance))
    /\ WF_vars(ThreadExit(TestInstance))
    /\ WF_vars(TestStopReturns)

(***************************************************************************)
(* Claims about one OAuthCallbackServer, checked under SpecCallback.       *)
(* A request carries a parameter when its query gives it a value that is   *)
(* not blank; the value meant is the first such one.                       *)
(***************************************************************************)
Carries(req, key) ==
    \E k \in 1..Len(req.query) : req.query[k][1] = key /\ req.query[k][2] # ""

FirstValue(req, key) ==
    LET hit(k) == req.query[k][1] = key /\ req.query[k][2] # ""
        first == CHOOSE k \in 1..Len(req.query) : hit(k) /\ \A j \in 1..(k - 1) : ~hit(j)
    IN  req.query[first][2]

StateOf(req) == IF Carries(req, "state") THEN Some(FirstValue(req, "state")) ELSE None

InHandler(i) == srv[i].thread = "handling"
LastResponse(i) == srv[i].resps[Len(srv[i].resps)]
MissingPage == Response(400, "failed", "Missing code parameter")

\* the future is pending and no resolution of it waits in the loop's queue
Unresolved(i) ==
    /\ future[i].state = "pending"
    /\ \A k \in 1..Len(ready) : ready[k].srv # i

IsResolving(r) == r # MissingPage
ResolvingResponses(i) == SelectSeq(srv[i].resps, IsResolving)

\* the future agrees with the first response that was not the missing-code page
FirstResolutionStands(i) ==
    /\ future[i].state = "result" =>
          /\ ResolvingResponses(i) # <<>>
          /\ ResolvingResponses(i)[1] = Response(200, "success", "")
    /\ future[i].state = "exception" =>
          /\ ResolvingResponses(i) # <<>>
          /\ ResolvingResponses(i)[1] = Response(400, "failed", future[i].error)

\* C3: whatever GET requests one callback server receives, its future goes
\* from pending to done at most once; once done, its value never changes (no
\* second resolution is applied), and it is the resolution of the first
\* request that carried a code or an error.
C3_ResolvedAtMostOnce ==
    [][ LET i == TestInstance IN
        /\ future[i].state # "pending" => future'[i] = future[i]
        /\ FirstResolutionStands(i)'
      ]_vars

\* a code request and then an error request were answered, the loop has run
\* both callbacks, and the future still holds the result
C3_Witness ==
    /\ Len(srv[TestInstance].resps) = 2
    /\ srv[TestInstance].resps[1] = Response(200, "success", "")
    /\ srv[TestInstance].resps[2] = Response(400, "failed", "x")
    /\ srv[TestInstance].thread = "serving"
    /\ ready = <<>>
    /\ future[TestInstance].state = "result"

\* C7: a GET request carrying a code and no error, to a callback server that
\* is unresolved, is answered with 200 and the success page, and resolves the
\* future with exactly (code, state): the request's state, or None without one.
C7_CodeResolves ==
    [][ LET i == TestInstance IN
        /\ ( (InHandler(i) /\ Carries(srv[i].req[1], "code")
                           /\ ~Carries(srv[i].req[1], "error"))
                => LastResponse(i) = Response(200, "success", "") )'
        /\ ( /\ InHandler(i)
             /\ Carries(srv[i].req[1], "code")
             /\ ~Carries(srv[i].req[1], "error")
             /\ Unresolved(i)
             /\ srv'[i].thread = "serving" )
                => ready' = <<[srv |-> i,
                               cb |-> SetResult(FirstValue(srv[i].req[1], "code"),
                                                StateOf(srv[i].req[1]))]>>
        /\ ( /\ ready # <<>>
             /\ ready' = Tail(ready)
             /\ Head(ready).srv = i
             /\ Head(ready).cb.fn = "set_result"
             /\ future[i].state = "pending" )
                => future'[i] = [state |-> "result", code |-> Head(ready).cb.code,
                                 st |-> Head(ready).cb.state, error |-> ""]
      ]_vars

\* one request, code=x without a state, answered 200; the awaiting caller got ("x", None)
C7_Witness ==
    /\ srv[TestInstance].resps = <<Response(200, "success", "")>>
    /\ srv[TestInstance].waited = Some(Return(<<"x", None>>))

\* C8: a GET request carrying an error, to a callback server that is
\* unresolved, is answered with 400 and the failure page, and makes
\* wait_for_callback raise an error whose message contains the error value;
\* no result is delivered for that server afterwards.
C8_ErrorRejects ==
    [][ LET i == TestInstance IN
        /\ ( (InHandler(i) /\ Carries(srv[i].req[1], "error"))
                => LastResponse(i)
                     = Response(400, "failed", FirstValue(srv[i].req[1], "error")) )'
        /\ ( /\ InHandler(i)
             /\ Carries(srv[i].req[1], "error")
             /\ Unresolved(i)
             /\ srv'[i].thread = "serving" )
                => ready' = <<[srv |-> i,
                               cb |-> SetException(FirstValue(srv[i].req[1], "error"))]>>
        /\ ( /\ ready # <<>>
             /\ ready' = Tail(ready)
             /\ Head(ready).srv = i
             /\ Head(ready).cb.fn = "set_exception"
             /\ future[i].state = "pending" )
                => future'[i] = [state |-> "exception", code |-> "", st |-> None,
                                 error |-> Head(ready).cb.error]
        /\ ( /\ future[i].state = "exception"
             /\ srv[i].waited = None
             /\ srv'[i].waited # None )
                => /\ srv'[i].waited[1].kind = "raise"
                   /\ \E k \in 1..Len(srv'[i].waited[1].msg) :
                          srv'[i].waited[1].msg[k] = future[i].error
        /\ future[i].state = "exception" => future'[i].state = "exception"
      ]_vars

\* one request, error=x, answered 400; the awaiting caller got the RuntimeError
C8_Witness ==
    /\ srv[TestInstance].resps = <<Response(400, "failed", "x")>>
    /\ srv[TestInstance].waited = Some(RaiseMsg("RuntimeError", <<"OAuth error: ", "x">>))

\* C9: a GET request carrying neither a code nor an error is answered with
\* 400 and the missing-code page and leaves the future pending with nothing
\* scheduled; after any number of such requests the server is still
\* unresolved and serving, so that a later code (or error) request resolves
\* (or rejects) the future.
C9_MissingKeepsWaiting ==
    [][ LET i == TestInstance IN
        /\ ( (InHandler(i) /\ ~Carries(srv[i].req[1], "code")
                           /\ ~Carries(srv[i].req[1], "error"))
                => (LastResponse(i) = MissingPage /\ srv[i].cb = NoCallback) )'
        /\ ( /\ InHandler(i)
             /\ ~Carries(srv[i].req[1], "code")
             /\ ~Carries(srv[i].req[1], "error")
             /\ srv'[i].thread # "handling" )
                => (ready' = ready /\ future' = future /\ srv'[i].thread = "serving")
        /\ ( (\A k \in 1..Len(srv[i].resps) : srv[i].resps[k] = MissingPage)
                => Unresolved(i) )'
      ]_vars

\* a request without code or error got the missing-code page, the next one
\* carried a code, and the future holds its result
C9_Witness ==
    /\ srv[TestInstance].resps = <<MissingPage, Response(200, "success", "")>>
    /\ future[TestInstance].state = "result"

(***************************************************************************)
(* SpecStore: FileTokenStorage called directly, and other programs writing *)
(* the record files.                                                       *)
(***************************************************************************)
StoreGetTokens(s) ==
    /\ storeRet' = [op |-> "get_tokens", name |-> s, out |-> get_tokens(file[s])]
    /\ UNCHANGED <<file, srv, future, ready, call, writer, mgr, agent>>

StoreGetClientInfo(s) ==
    /\ storeRet' = [op |-> "get_client_info", name |-> s, out |-> get_client_info(file[s])]
    /\ UNCHANGED <<file, srv, future, ready, call, writer, mgr, agent>>

StoreSetTokens(s, tokens, cmode) ==
    /\ file' = [file EXCEPT ![s] = set_tokens(file[s], tokens, cmode).file]
    /\ storeRet' = [op |-> "set_tokens", name |-> s,
                    out |-> set_tokens(file[s], tokens, cmode).out]
    /\ UNCHANGED <<srv, future, ready, call, writer, mgr, agent>>

StoreSetClientInfo(s, client_info, cmode) ==
    /\ file' = [file EXCEPT ![s] = set_client_info(file[s], client_info, cmode).file]
    /\ storeRet' = [op |-> "set_client_info", name |-> s,
                    out |-> set_client_info(file[s], client_info, cmode).out]
    /\ UNCHANGED <<srv, future, ready, call, writer, mgr, agent>>

\* another program replaces, creates or removes the record file
EnvWrite(s, f) ==
    /\ file[s] # f
    /\ file' = [file EXCEPT ![s] = f]
    /\ storeRet' = [op |-> "env", name |-> s, out |-> ReturnNone]
    /\ UNCHANGED <<srv, future, ready, call, writer, mgr, agent>>

InitStore ==
    /\ file = [s \in ServerNames |-> NoFile]
    /\ storeRet = NoStoreCall
    /\ srv = [i \in Instances |-> NoServer]
    /\ future = [i \in Instances |-> PendingFuture]
    /\ ready = <<>>
    /\ call = [c \in Instances |-> IdleCall]
    /\ NoWriters /\ NoManager /\ NoAgent

NextStore ==
    \/ \E s \in ServerNames : StoreGetTokens(s)
    \/ \E s \in ServerNames : StoreGetClientInfo(s)
    \/ \E s \in ServerNames, c \in Credentials, m \in CreateModes : StoreSetTokens(s, c, m)
    \/ \E s \in ServerNames, ci \in ClientInfos, m \in CreateModes :
            StoreSetClientInfo(s, ci, m)
    \/ \E s \in ServerNames, f \in SeedFiles : EnvWrite(s, f)

SpecStore == InitStore /\ [][NextStore]_vars

(***************************************************************************)
(* Claims about FileTokenStorage, checked under SpecStore.                 *)
(***************************************************************************)
GetOps == {"get_tokens", "get_client_info"}
SetOps == {"set_tokens", "set_client_info"}

\* the owner may read and write the record file, or there is none yet
Accessible(f) == ~f.exists \/ (OwnerReadable(f.mode) /\ OwnerWritable(f.mode))

\* the raw entry under key of a record file that parses to a mapping
HasEntry(f, key) ==
    /\ f.exists
    /\ f.data.kind = "json"
    /\ f.data.top.kind = "obj"
    /\ key \in DOMAIN f.data.top.obj

\* C4: get_tokens and get_client_info never raise to the caller; for a file
\* that is missing, unreadable, no valid JSON, or JSON of another structure
\* they return None.
C4_GettersNeverRaise ==
    storeRet.op \in GetOps => storeRet.out.kind = "return"

\* C5: for any credential c and any prior record, set_tokens(c) completes,
\* get_tokens() then returns c in every field, a repeated set_tokens(c)
\* leaves the record as it is, and a client_info entry present before is
\* present and unchanged after; symmetrically for set_client_info and the
\* tokens entry.
C5_SetGetRoundTrip ==
    [][ /\ \A s \in ServerNames, c \in Credentials, m \in CreateModes :
            (StoreSetTokens(s, c, m) /\ Accessible(file[s])) =>
                /\ storeRet'.out = ReturnNone
                /\ get_tokens(file'[s]) = Return(c)
                /\ set_tokens(file'[s], c, m).file = file'[s]
                /\ HasEntry(file[s], "client_info") =>
                      /\ HasEntry(file'[s], "client_info")
                      /\ file'[s].data.top.obj["client_info"]
                            = file[s].data.top.obj["client_info"]
        /\ \A s \in ServerNames, ci \in ClientInfos, m \in CreateModes :
            (StoreSetClientInfo(s, ci, m) /\ Accessible(file[s])) =>
                /\ storeRet'.out = ReturnNone
                /\ get_client_info(file'[s]) = Return(ci)
                /\ set_client_info(file'[s], ci, m).file = file'[s]
                /\ HasEntry(file[s], "tokens") =>
                      /\ HasEntry(file'[s], "tokens")
                      /\ file'[s].data.top.obj["tokens"] = file[s].data.top.obj["tokens"]
      ]_vars

\* C6: after a completed set_tokens or set_client_info the record file
\* exists with permission bits 0600, whether the call created it or found it
\* with any other mode.
C6_ModeAfterSet ==
    \A s \in ServerNames :
        (storeRet.op \in SetOps /\ storeRet.name = s /\ storeRet.out.kind = "return") =>
            (file[s].exists /\ file[s].mode = "0600")

\* a set_tokens has completed on a file that another program had left with a
\* malformed client_info entry and a mode other than 0600
C6_Witness ==
    \E s \in ServerNames :
        /\ storeRet = [op |-> "set_tokens", name |-> s, out |-> ReturnNone]
        /\ HasEntry(file[s], "client_info")
        /\ file[s].data.top.obj["client_info"] = EntryStr
        /\ file[s].mode = "0600"

(***************************************************************************)
(* ensure_oauth_token.  Call c runs as a task of the event loop; between   *)
(* its suspension points its code is one step.  The handshake that         *)
(* OAuthClientProvider drives inside client.post is the environment's:     *)
(* it may register, present the authorization URL and await the callback,  *)
(* exchange the code and store the token, fail, or return.                 *)
(***************************************************************************)
Calls == 1..MaxTasks

\* a free task of a lower number is taken first
MayBegin(c) ==
    /\ call[c].pc = "idle"
    /\ IF c = 1 THEN TRUE ELSE call[c - 1].pc # "idle"

NoTokenStored(s) ==
    RaiseMsg("RuntimeError", <<"OAuth flow completed but no token was stored for ", s>>)

\* a cached credential that has a refresh_token or an expiry is not trusted:
\* the call goes through the handshake again
EnsureCached_revalidating(c, s) ==
    /\ ~LoopBlocked
    /\ MayBegin(c)
    /\ get_tokens(file[s]) # ReturnNone
    /\ IF get_tokens(file[s]).kind = "raise"
       THEN /\ call' = [call EXCEPT ![c] =
                          [@ EXCEPT !.pc = "done", !.name = s, !.out = get_tokens(file[s])]]
            /\ UNCHANGED <<srv, future>>
       ELSE IF \/ get_tokens(file[s]).val[1].refresh_token # None
               \/ get_tokens(file[s]).val[1].expires_in # None
       THEN /\ srv' = [srv EXCEPT ![c] = [NewServer EXCEPT !.thread = "started"]]
            /\ future' = [future EXCEPT ![c] = PendingFuture]
            /\ call' = [call EXCEPT ![c] = [@ EXCEPT !.pc = "handshake", !.name = s,
                                                      !.nserver = @ + 1, !.npost = @ + 1]]
       ELSE /\ call' = [call EXCEPT ![c] =
                          [@ EXCEPT !.pc = "done", !.name = s, !.hit = TRUE,
                                    !.out = Return(get_tokens(file[s]).val[1].access_token)]]
            /\ UNCHANGED <<srv, future>>
    /\ UNCHANGED <<file, storeRet, ready, writer, mgr, agent>>

\* lines 195-201: the cached token is returned, or the read's error surfaces
EnsureCached(c, s) ==
    /\ ~LoopBlocked
    /\ MayBegin(c)
    /\ get_tokens(file[s]) # ReturnNone
    /\ call' = [call EXCEPT ![c] =
                  IF get_tokens(file[s]).kind = "raise"
                  THEN [@ EXCEPT !.pc = "done", !.name = s, !.out = get_tokens(file[s])]
                  ELSE [@ EXCEPT !.pc = "done", !.name = s, !.hit = TRUE,
                                 !.out = Return(get_tokens(file[s]).val[1].access_token)]]
    /\ UNCHANGED <<file, storeRet, srv, future, ready, writer, mgr, agent>>

\* a cache miss that joins the handshake another call has in progress for s
EnsureMiss_deduplicating(c, s) ==
    /\ ~LoopBlocked
    /\ MayBegin(c)
    /\ get_tokens(file[s]) = ReturnNone
    /\ IF \E d \in Instances : call[d].name = s /\ call[d].pc \notin {"idle", "done"}
       THEN /\ call' = [call EXCEPT ![c] = [@ EXCEPT !.pc = "waiting", !.name = s]]
            /\ UNCHANGED <<srv, future, writer, mgr, agent>>
       ELSE /\ srv' = [srv EXCEPT ![c] = [NewServer EXCEPT !.thread = "started"]]
            /\ future' = [future EXCEPT ![c] = PendingFuture]
            /\ call' = [call EXCEPT ![c] = [@ EXCEPT !.pc = "handshake", !.name = s,
                                                      !.nserver = @ + 1, !.npost = @ + 1]]
    /\ UNCHANGED <<file, storeRet, ready, writer, mgr, agent>>

\* lines 203-239: cache miss; the callback server is created and started and
\* the preflight POST is issued
EnsureMiss(c, s) ==
    /\ ~LoopBlocked
    /\ MayBegin(c)
    /\ get_tokens(file[s]) = ReturnNone
    /\ srv' = [srv EXCEPT ![c] = [NewServer EXCEPT !.thread = "started"]]
    /\ future' = [future EXCEPT ![c] = PendingFuture]
    /\ call' = [call EXCEPT ![c] = [@ EXCEPT !.pc = "handshake", !.name = s,
                                              !.nserver = @ + 1, !.npost = @ + 1]]
    /\ UNCHANGED <<file, storeRet, ready, writer, mgr, agent>>

\* lines 203-207: cache miss; Thread.start raises (no thread can be started),
\* which is outside the try statement
EnsureMissStartFails(c, s) ==
    /\ ~LoopBlocked
    /\ MayBegin(c)
    /\ get_tokens(file[s]) = ReturnNone
    /\ srv' = [srv EXCEPT ![c] = NewServer]
    /\ future' = [future EXCEPT ![c] = PendingFuture]
    /\ call' = [call EXCEPT ![c] = [@ EXCEPT !.pc = "done", !.name = s,
                                              !.nserver = @ + 1,
                                              !.out = Raise("RuntimeError")]]
    /\ UNCHANGED <<file, storeRet, ready, writer, mgr, agent>>

\* the provider registers the client and stores the registration
ProviderRegister(c, client_info, cmode) ==
    /\ ~LoopBlocked
    /\ call[c].pc = "handshake"
    /\ LET r == set_client_info(file[call[c].name], client_info, cmode) IN
        /\ file' = [file EXCEPT ![call[c].name] = r.file]
        /\ call' = [call EXCEPT ![c] =
                      IF r.out.kind = "raise"
                      THEN [@ EXCEPT !.pc = "finally", !.out = r.out]
                      ELSE [@ EXCEPT !.pc = "authorize"]]
    /\ UNCHANGED <<storeRet, srv, future, ready, writer, mgr, agent>>

\* the provider calls redirect_handler, then callback_handler, which suspends
\* in wait_for_callback
ProviderRedirect(c) ==
    /\ ~LoopBlocked
    /\ call[c].pc \in {"handshake", "authorize"}
    /\ call' = [call EXCEPT ![c].pc = "waiting"]
    /\ UNCHANGED <<file, storeRet, srv, future, ready, writer, mgr, agent>>

\* the callback's error caught and dropped, the call ending without a value
CallbackResumes_swallowing(c) ==
    /\ ~LoopBlocked
    /\ call[c].pc = "waiting"
    /\ future[c].state # "pending"
    /\ call' = [call EXCEPT ![c] =
                  IF future[c].state = "result"
                  THEN [@ EXCEPT !.pc = "exchange",
                                 !.got = Some(wait_for_callback(future[c]).val[1])]
                  ELSE [@ EXCEPT !.pc = "finally", !.out = ReturnNone]]
    /\ UNCHANGED <<file, storeRet, srv, future, ready, writer, mgr, agent>>

\* wait_for_callback resumes: the code and state go to the provider, or the
\* callback's error leaves client.post
CallbackResumes(c) ==
    /\ ~LoopBlocked
    /\ call[c].pc = "waiting"
    /\ future[c].state # "pending"
    /\ call' = [call EXCEPT ![c] =
                  IF future[c].state = "result"
                  THEN [@ EXCEPT !.pc = "exchange",
                                 !.got = Some(wait_for_callback(future[c]).val[1])]
                  ELSE [@ EXCEPT !.pc = "finally", !.out = wait_for_callback(future[c])]]
    /\ UNCHANGED <<file, storeRet, srv, future, ready, writer, mgr, agent>>

\* the provider exchanges the code and stores the token
ProviderExchange(c, tokens, cmode) ==
    /\ ~LoopBlocked
    /\ call[c].pc = "exchange"
    /\ LET r == set_tokens(file[call[c].name], tokens, cmode) IN
        /\ file' = [file EXCEPT ![call[c].name] = r.file]
        /\ call' = [call EXCEPT ![c] =
                      IF r.out.kind = "raise"
                      THEN [@ EXCEPT !.pc = "finally", !.out = r.out]
                      ELSE [@ EXCEPT !.pc = "stored"]]
    /\ UNCHANGED <<storeRet, srv, future, ready, writer, mgr, agent>>

\* a failed handshake retried inside the call with another callback server
HandshakeFails_retrying(c) ==
    /\ ~LoopBlocked
    /\ call[c].pc \in {"handshake", "authorize", "waiting", "exchange", "stored"}
    /\ srv' = [srv EXCEPT ![c] = [NewServer EXCEPT !.thread = "started"]]
    /\ future' = [future EXCEPT ![c] = PendingFuture]
    /\ call' = [call EXCEPT ![c] = [@ EXCEPT !.pc = "handshake",
                                              !.nserver = @ + 1, !.npost = @ + 1]]
    /\ UNCHANGED <<file, storeRet, ready, writer, mgr, agent>>

\* discovery, registration, authorization or the exchange fails
HandshakeFails(c) ==
    /\ ~LoopBlocked
    /\ call[c].pc \in {"handshake", "authorize", "waiting", "exchange", "stored"}
    /\ call' = [call EXCEPT ![c] = [@ EXCEPT !.pc = "finally",
                                              !.out = Raise("HandshakeError")]]
    /\ UNCHANGED <<file, storeRet, srv, future, ready, writer, mgr, agent>>

\* the decision taken on the result of the first read, which was None
reread_first_read(f, s) == NoTokenStored(s)

\* lines 239-245: client.post returns; the token is read again and the
\* return value or the error is decided
reread(f, s) ==
    IF get_tokens(f).kind = "raise" THEN get_tokens(f)
    ELSE IF get_tokens(f) = ReturnNone THEN NoTokenStored(s)
    ELSE Return(get_tokens(f).val[1].access_token)

PostReturns(c) ==
    /\ ~LoopBlocked
    /\ call[c].pc \in {"handshake", "stored"}
    /\ call' = [call EXCEPT ![c] = [@ EXCEPT !.pc = "finally",
                                              !.out = reread(file[call[c].name],
                                                             call[c].name)]]
    /\ UNCHANGED <<file, storeRet, srv, future, ready, writer, mgr, agent>>

\* stop() called as soon as client.post is over, with the re-read after it
Finally_before_reread(c) ==
    /\ ~LoopBlocked
    /\ call[c].pc \in {"handshake", "stored"}
    /\ stop(c)
    /\ call' = [call EXCEPT ![c] = [@ EXCEPT !.pc = "stopping",
                                              !.out = reread(file[call[c].name],
                                                             call[c].name)]]
    /\ UNCHANGED <<file, storeRet, future, ready, writer, mgr, agent>>

\* lines 246-247: the finally clause calls stop()
Finally(c) ==
    /\ ~LoopBlocked
    /\ call[c].pc = "finally"
    /\ stop(c)
    /\ call' = [call EXCEPT ![c].pc = "stopping"]
    /\ UNCHANGED <<file, storeRet, future, ready, writer, mgr, agent>>

\* stop() returns and the call returns or raises
Finished(c) ==
    /\ call[c].pc = "stopping"
    /\ stop_returns(c)
    /\ call' = [call EXCEPT ![c].pc = "done"]
    /\ UNCHANGED <<file, storeRet, future, ready, writer, mgr, agent>>

\* the caller has the result; the call's frame, its callback server and its
\* future are garbage, and task c is free for another call
Forget(c) ==
    /\ call[c].pc = "done"
    /\ \A k \in 1..Len(ready) : ready[k].srv # c
    /\ call' = [call EXCEPT ![c] = IdleCall]
    /\ srv' = [srv EXCEPT ![c] = NoServer]
    /\ future' = [future EXCEPT ![c] = PendingFuture]
    /\ UNCHANGED <<file, storeRet, ready, writer, mgr, agent>>

\* the redirects a browser sends during a handshake
FlowRequests ==
    { [path |-> "/callback", query |-> q] :
        q \in { << <<"code", "x">>, <<"state", "y">> >>,
                << <<"error", "x">> >>,
                <<>> } }

\* record files found when a call begins, or written meanwhile by another program
FlowFiles ==
    { NoFile,
      [exists |-> TRUE, mode |-> "0600",
       data |-> DataJson(TopObj([k \in {"tokens"} |-> MinimalTokens("tokA")]))],
      [exists |-> TRUE, mode |-> "0644", data |-> DataJson(TopList)] }

\* what the authorization server issues during a handshake
FlowCredentials == { RichCredential }
FlowClientInfos == { ci \in ClientInfos : ci.client_id = "cidB" }

\* a call for s is between its first read and its return
InProgress(s) ==
    \E c \in Calls :
        /\ call[c].name = s
        /\ call[c].pc \in {"handshake", "authorize", "waiting", "exchange", "stored"}

\* another program replaces the record file of s while a call for s is in
\* client.post (as the fake_post of test_runs_oauth_flow_when_no_cache does)
FlowEnvWrite(s, f) ==
    /\ InProgress(s)
    /\ f.exists
    /\ file[s] # f
    /\ file' = [file EXCEPT ![s] = f]
    /\ UNCHANGED <<storeRet, srv, future, ready, call, writer, mgr, agent>>

\* server.py _reauth: an empty list only lists the records; otherwise the
\* record file of each named server is unlinked if it exists
\* _reauth unlinking every record file of the directory
_reauth_clearing_all(files, server_names) ==
    IF server_names = {} THEN files
    ELSE [s \in DOMAIN files |-> NoFile]

_reauth(files, server_names) ==
    IF server_names = {} THEN files
    ELSE [s \in DOMAIN files |->
            IF s \in server_names /\ files[s].exists THEN NoFile ELSE files[s]]

\* the command line runs _reauth, in a process of its own, at any time
Reauth(server_names) ==
    /\ file' = _reauth(file, server_names)
    /\ file' # file
    /\ UNCHANGED <<storeRet, srv, future, ready, call, writer, mgr, agent>>

\* the authorization server sends the browser to the redirect URI once, after
\* redirect_handler has presented the authorization URL
FlowRequest(c, req) ==
    /\ call[c].pc = "waiting"
    /\ srv[c].resps = <<>>
    /\ HandleRequest(c, req)

Init ==
    /\ file \in [ServerNames -> FlowFiles]
    /\ storeRet = NoStoreCall
    /\ srv = [i \in Instances |-> NoServer]
    /\ future = [i \in Instances |-> PendingFuture]
    /\ ready = <<>>
    /\ call = [c \in Calls |-> IdleCall]
    /\ NoWriters /\ NoManager /\ NoAgent

\* Spec: the caller awaits each call before it makes the next one
NoCallRunning == \A d \in Calls : call[d].pc = "idle"

AwaitedCached(c, s) == NoCallRunning /\ EnsureCached(c, s)
AwaitedMiss(c, s) == NoCallRunning /\ EnsureMiss(c, s)
AwaitedMissStartFails(c, s) == NoCallRunning /\ EnsureMissStartFails(c, s)

Next ==
    \/ \E c \in Calls, s \in ServerNames : AwaitedCached(c, s)
    \/ \E c \in Calls, s \in ServerNames : AwaitedMiss(c, s)
    \/ \E c \in Calls, s \in ServerNames : AwaitedMissStartFails(c, s)
    \/ \E c \in Calls, ci \in FlowClientInfos, m \in CreateModes :
            ProviderRegister(c, ci, m)
    \/ \E c \in Calls : ProviderRedirect(c)
    \/ \E c \in Calls : CallbackResumes(c)
    \/ \E c \in Calls, tok \in FlowCredentials, m \in CreateModes :
            ProviderExchange(c, tok, m)
    \/ \E c \in Calls : HandshakeFails(c)
    \/ \E c \in Calls : PostReturns(c)
    \/ \E c \in Calls : Finally(c)
    \/ \E c \in Calls : Finished(c)
    \/ \E c \in Calls : Forget(c)
    \/ \E i \in Instances : ThreadEnter(i)
    \/ \E c \in Calls, req \in FlowRequests : FlowRequest(c, req)
    \/ \E s \in ServerNames, f \in FlowFiles : FlowEnvWrite(s, f)
    \/ \E names \in SUBSET ServerNames : Reauth(names)
    \/ \E i \in Instances : HandlerReturn(i)
    \/ \E i \in Instances : ThreadExit(i)
    \/ LoopRun

Spec == Init /\ [][Next]_vars

(***************************************************************************)
(* SpecConcurrent: up to MaxTasks calls for one server name, gathered on   *)
(* one event loop, starting from an empty token directory.                 *)
(***************************************************************************)
ConcurrentName == "s1"

\* the authorization server issues a credential of its own in each handshake:
\* the calls with an odd number get tokA, the others tokB
IssuedTo(c) ==
    IF c % 2 = 1 THEN [RichCredential EXCEPT !.access_token = "tokA"] ELSE RichCredential

ConcurrentCredentials == { IssuedTo(c) : c \in Calls }
ConcurrentClientInfos == FlowClientInfos

InitConcurrent ==
    /\ file = [s \in ServerNames |-> NoFile]
    /\ storeRet = NoStoreCall
    /\ srv = [i \in Instances |-> NoServer]
    /\ future = [i \in Instances |-> PendingFuture]
    /\ ready = <<>>
    /\ call = [c \in Calls |-> IdleCall]
    /\ NoWriters /\ NoManager /\ NoAgent

NextConcurrent ==
    \/ \E c \in Calls : EnsureCached(c, ConcurrentName)
    \/ \E c \in Calls : EnsureMiss(c, ConcurrentName)
    \/ \E c \in Calls : EnsureMissStartFails(c, ConcurrentName)
    \/ \E c \in Calls, ci \in ConcurrentClientInfos, m \in CreateModes :
            ProviderRegister(c, ci, m)
    \/ \E c \in Calls : ProviderRedirect(c)
    \/ \E c \in Calls : CallbackResumes(c)
    \/ \E c \in Calls, m \in CreateModes : ProviderExchange(c, IssuedTo(c), m)
    \/ \E c \in Calls : HandshakeFails(c)
    \/ \E c \in Calls : PostReturns(c)
    \/ \E c \in Calls : Finally(c)
    \/ \E c \in Calls : Finished(c)
    \/ \E i \in Instances : ThreadEnter(i)
    \/ \E c \in Calls, req \in FlowRequests : FlowRequest(c, req)
    \/ \E i \in Instances : HandlerReturn(i)
    \/ \E i \in Instances : ThreadExit(i)
    \/ LoopRun

SpecConcurrent == InitConcurrent /\ [][NextConcurrent]_vars

(***************************************************************************)
(* Claims about ensure_oauth_token, checked under Spec.                    *)
(***************************************************************************)
\* the record file holds a valid cached credential
HoldsCredential(f) ==
    /\ f.exists
    /\ OwnerReadable(f.mode)
    /\ HasEntry(f, "tokens")
    /\ TokensValid(f.data.top.obj["tokens"])

StoredAccessToken(f) == f.data.top.obj["tokens"].obj["access_token"].s

\* C1: for a server whose record file holds a valid credential, every call
\* of ensure_oauth_token, a repeated one too, returns that credential's
\* access_token; it creates no callback server and issues no preflight POST.
C1_CacheHitNoHandshake ==
    [][ \A c \in Calls, s \in ServerNames :
            ( /\ call[c].pc = "idle"
              /\ call'[c].pc # "idle"
              /\ call'[c].name = s
              /\ HoldsCredential(file[s]) )
                => /\ call'[c].pc = "done"
                   /\ call'[c].out = Return(StoredAccessToken(file[s]))
                   /\ call'[c].nserver = 0
                   /\ call'[c].npost = 0
                   /\ srv' = srv
                   /\ future' = future
                   /\ file' = file
      ]_vars

\* a call returned from the cache the token that an earlier call's handshake stored
C1_Witness ==
    \E c \in Calls :
        /\ call[c].pc = "done"
        /\ call[c].hit
        /\ call[c].nserver = 0
        /\ call[c].out = Return("tokB")

\* C2: a call that created a callback server has invoked stop() on it by the
\* time it returns or raises, whatever the exit: return, handshake error,
\* callback error, no token stored, or start() failing.
C2_StopOnEveryExit ==
    \A c \in Calls :
        (call[c].pc = "done" /\ call[c].nserver > 0) => srv[c].stop # "no"

\* C10: on a cache miss, when the preflight POST returns without error and
\* the record file then holds a credential, ensure_oauth_token returns the
\* access_token of the credential stored in the file at that moment.
C10_ReturnsStoredToken ==
    [][ \A c \in Calls :
            /\ (PostReturns(c) /\ HoldsCredential(file[call[c].name]))
                  => call'[c].out = Return(StoredAccessToken(file[call[c].name]))
            /\ (call[c].pc \in {"finally", "stopping"} /\ call'[c].pc # "idle")
                  => call'[c].out = call[c].out
      ]_vars

\* a call that took the handshake returned the token the exchange stored
C10_Witness ==
    \E c \in Calls :
        /\ call[c].pc = "done"
        /\ ~call[c].hit
        /\ call[c].npost = 1
        /\ srv[c].stop = "done"
        /\ call[c].out = Return("tokB")

HandshakePhases == {"handshake", "authorize", "waiting", "exchange", "stored"}

\* call c begins for server s in this step
Begins(c, s) ==
    /\ call[c].pc = "idle"
    /\ call'[c].pc # "idle"
    /\ call'[c].name = s

\* C11: on a cache miss, when the preflight POST returns without raising and
\* the record file then holds no readable credential, ensure_oauth_token
\* raises the 'no token was stored' error and returns no token string.
C11_NoTokenStoredError ==
    [][ \A c \in Calls :
            (PostReturns(c) /\ ~HoldsCredential(file[call[c].name]))
                => call'[c].out = NoTokenStored(call[c].name)
      ]_vars

\* C12: a failure raised during the handshake (preflight, registration, the
\* callback wait rejected by an error redirect, the exchange) reaches the
\* caller as a failure, with the error value in the callback-error case; the
\* call never swallows it and returns no token string on such a path.
C12_HandshakeFailurePropagates ==
    [][ \A c \in Calls :
            /\ ( /\ call[c].pc \in HandshakePhases
                 /\ call'[c].pc = "finally"
                 /\ ~PostReturns(c) )
                    => call'[c].out.kind = "raise"
            /\ ( /\ call[c].pc = "waiting"
                 /\ future[c].state = "exception"
                 /\ call'[c].pc # "waiting"
                 /\ ~HandshakeFails(c) )
                    => /\ call'[c].out.kind = "raise"
                       /\ \E k \in 1..Len(call'[c].out.msg) :
                              call'[c].out.msg[k] = future[c].error
            /\ ( /\ call[c].pc \in {"finally", "stopping"}
                 /\ call[c].out.kind = "raise"
                 /\ call'[c].pc # "idle" )
                    => call'[c].out = call[c].out
      ]_vars

\* a call has raised the error of an error=x redirect, after stopping its server
C12_Witness ==
    \E c \in Calls :
        /\ call[c].pc = "done"
        /\ srv[c].stop = "done"
        /\ call[c].out = RaiseMsg("RuntimeError", <<"OAuth error: ", "x">>)

\* C13: when the record file is absent, unreadable or unparseable (valid
\* JSON that is no mapping, a malformed tokens entry), ensure_oauth_token
\* takes the cache-miss path and creates its callback server; the read
\* failure is not surfaced to the caller.
C13_BadRecordIsCacheMiss ==
    [][ \A c \in Calls, s \in ServerNames :
            (Begins(c, s) /\ ~HoldsCredential(file[s])) => call'[c].nserver = 1
      ]_vars

StartedServer == [NewServer EXCEPT !.thread = "started"]

\* C14: a call performs no retry: it creates at most one callback server and
\* issues at most one preflight POST; a call made after a failed one starts
\* the handshake from the beginning with a callback server of its own.
C14_NoRetry ==
    [][ \A c \in Calls :
            /\ call[c].nserver <= 1 /\ call[c].npost <= 1
            /\ call'[c].nserver <= 1 /\ call'[c].npost <= 1
            /\ \A s \in ServerNames :
                (Begins(c, s) /\ call'[c].pc # "done") =>
                    /\ call'[c].pc = "handshake"
                    /\ call'[c].got = None
                    /\ srv'[c] = StartedServer
                    /\ future'[c] = PendingFuture
      ]_vars

\* a call is at the start of its handshake with a server that has answered
\* nothing, on a record that holds the client_info a failed call left behind
C14_Witness ==
    \E c \in Calls :
        /\ call[c].pc = "handshake"
        /\ call[c].nserver = 1
        /\ srv[c].resps = <<>>
        /\ future[c] = PendingFuture
        /\ HasEntry(file[call[c].name], "client_info")
        /\ ~HasEntry(file[call[c].name], "tokens")

\* C15: a call that sees a cache miss while another call for the same server
\* is in its handshake is neither merged with it nor queued behind it: in
\* that very step it starts a callback server and a future of its own and
\* issues its own preflight, and the other call is left as it is.
C15_ConcurrentMissesIndependent ==
    [][ \A c \in Calls, d \in Calls, s \in ServerNames :
            ( /\ c # d
              /\ Begins(c, s)
              /\ get_tokens(file[s]) = ReturnNone
              /\ call[d].name = s
              /\ call[d].pc \in HandshakePhases )
                => /\ call'[c].nserver = 1
                   /\ srv'[c] \in {StartedServer, NewServer}
                   /\ call'[c].pc = "handshake" => (srv'[c] = StartedServer /\ call'[c].npost = 1)
                   /\ future'[c] = PendingFuture
                   /\ call'[d] = call[d]
                   /\ srv'[d] = srv[d]
                   /\ future'[d] = future[d]
      ]_vars

\* two calls for the same server wait for their own redirect, each with its
\* own serving listener, pending future and preflight
C15_Witness ==
    \E c \in Calls, d \in Calls :
        /\ c # d
        /\ call[c].name = call[d].name
        /\ call[c].pc = "waiting" /\ call[d].pc = "waiting"
        /\ srv[c].thread = "serving" /\ srv[d].thread = "serving"
        /\ future[c].state = "pending" /\ future[d].state = "pending"
        /\ call[c].npost = 1 /\ call[d].npost = 1

\* a step of another program: a replaced record file, or _reauth
OutsideStep ==
    \/ \E s \in ServerNames, f \in FlowFiles : FlowEnvWrite(s, f)
    \/ \E names \in SUBSET ServerNames : Reauth(names)

\* the process can read the file and it parses to a mapping
ParseableRecord(f) ==
    /\ f.exists
    /\ OwnerReadable(f.mode)
    /\ f.data.kind = "json"
    /\ f.data.top.kind = "obj"

\* C16: no step of FileTokenStorage or ensure_oauth_token deletes a record
\* file or removes a tokens or client_info entry from a parseable record,
\* and a cache hit leaves the record file as it is.
C16_NothingRemoved ==
    [][ ~OutsideStep =>
          \A s \in ServerNames :
            /\ file[s].exists => file'[s].exists
            /\ \A key \in {"tokens", "client_info"} :
                  (ParseableRecord(file[s]) /\ HasEntry(file[s], key))
                      => HasEntry(file'[s], key)
            /\ (\E c \in Calls : Begins(c, s) /\ call'[c].hit) => file' = file
      ]_vars

\* the exchange has stored the tokens in a record that held the client_info
C16_Witness ==
    \E c \in Calls :
        /\ call[c].pc = "stored"
        /\ HasEntry(file[call[c].name], "client_info")
        /\ HasEntry(file[call[c].name], "tokens")

\* C17: _reauth with no names changes no record file; _reauth with names
\* removes the existing record files of the named servers and leaves the
\* record of every other server as it was, so that get_tokens is None for a
\* cleared server (the next call takes the handshake path) and a server that
\* held a credential still holds it.
C17_ReauthClearsNamedOnly ==
    [][ /\ _reauth(file, {}) = file
        /\ \A names \in SUBSET ServerNames :
              Reauth(names) =>
                \A s \in ServerNames :
                    /\ s \in names =>
                          /\ ~file'[s].exists
                          /\ get_tokens(file'[s]) = ReturnNone
                    /\ s \notin names =>
                          /\ file'[s] = file[s]
                          /\ HoldsCredential(file[s]) => HoldsCredential(file'[s])
      ]_vars

\* the record a call has just stored its tokens in is gone again while the
\* other server still holds its credential
C17_Witness ==
    \E c \in Calls, s \in ServerNames :
        /\ call[c].pc = "stored"
        /\ s # call[c].name
        /\ ~file[call[c].name].exists
        /\ HoldsCredential(file[s])

\* C18 as stated: the callback server has been stopped by the time the cache
\* is re-read.
C18_StopBeforeReread ==
    [][ \A c \in Calls : PostReturns(c) => srv[c].stop = "done" ]_vars

\* C18: on a cache miss the steps are in the order cache read, callback server
\* start, preflight and handshake, re-read of get_tokens, callback server
\* stop: the re-read finds the server started and not yet stopped, stop() is
\* invoked only once the re-read (or a failure of the handshake) has decided
\* the outcome, and the call ends only after stop() has returned.
C18_RereadThenStop ==
    [][ \A c \in Calls :
            /\ PostReturns(c) =>
                  /\ call[c].npost = 1
                  /\ srv[c].thread \in {"started", "serving", "handling"}
                  /\ srv[c].stop = "no"
            /\ (srv[c].stop = "no" /\ srv'[c].stop # "no") =>
                  /\ call[c].pc = "finally"
                  /\ call'[c].out = call[c].out
            /\ (call[c].pc \in {"finally", "stopping"} /\ call'[c].pc = "done") =>
                  /\ srv'[c].stop = "done"
                  /\ call'[c].out = call[c].out
      ]_vars

\* the re-read has found the stored token while the callback server is still
\* serving, stop() not yet called
C18_Witness ==
    \E c \in Calls :
        /\ call[c].pc = "finally"
        /\ call[c].out.kind = "return"
        /\ srv[c].stop = "no"
        /\ srv[c].thread = "serving"

C20_ResultWrittenOnLoop ==
    [][ \A i \in Instances :
            /\ future[i].state # "pending" => future'[i] = future[i]
            /\ future'[i] # future[i] =>
                  /\ ~LoopBlocked
                  /\ srv' = srv
                  /\ ready # <<>>
                  /\ Head(ready).srv = i
                  /\ ready' = Tail(ready)
                  /\ Head(ready).cb.fn = "set_result" =>
                        /\ future'[i].state = "result"
                        /\ future'[i].code = Head(ready).cb.code
                        /\ future'[i].st = Head(ready).cb.state
                  /\ Head(ready).cb.fn = "set_exception" =>
                        /\ future'[i].state = "exception"
                        /\ future'[i].error = Head(ready).cb.error
            /\ (srv[i].waited = None /\ srv'[i].waited # None) =>
                  /\ future[i].state # "pending"
                  /\ future[i].state = "result" =>
                        srv'[i].waited = Some(Return(<<future[i].code, future[i].st>>))
                  /\ future[i].state = "exception" =>
                        srv'[i].waited =
                            Some(RaiseMsg("RuntimeError", <<"OAuth error: ", future[i].error>>))
      ]_vars

\* wait_for_callback has returned the pair of the first redirect after the
\* listener answered a second request and the server was stopped
C20_Witness ==
    /\ future[TestInstance].state = "result"
    /\ srv[TestInstance].waited =
          Some(Return(<<future[TestInstance].code, future[TestInstance].st>>))
    /\ Len(srv[TestInstance].resps) = 2
    /\ srv[TestInstance].stop = "done"

\* there is no record file, or the owner may read and write it and its
\* content is no valid JSON or JSON whose top level is not a mapping
MissingOrMalformed(f) ==
    \/ ~f.exists
    \/ /\ OwnerReadable(f.mode) /\ OwnerWritable(f.mode)
       /\ \/ f.data.kind = "badjson"
          \/ f.data.kind = "json" /\ f.data.top.kind # "obj"

\* C21: set_tokens and set_client_info on a missing or malformed record file
\* complete without raising, and afterwards the file is a parseable record
\* that holds the entry just written.
C21_SettersTreatMalformedAsEmpty ==
    [][ \A s \in ServerNames :
            ( /\ storeRet'.op \in SetOps
              /\ storeRet'.name = s
              /\ MissingOrMalformed(file[s]) )
                => /\ storeRet'.out = ReturnNone
                   /\ ParseableRecord(file'[s])
                   /\ storeRet'.op = "set_tokens" => HasEntry(file'[s], "tokens")
                   /\ storeRet'.op = "set_client_info" => HasEntry(file'[s], "client_info")
      ]_vars

\* C22: a GET request to a path other than /callback schedules no write of
\* the future, whatever its query carries: it neither resolves nor rejects
\* the waiter.
C22_OnlyCallbackPathResolves ==
    \A i \in Instances :
        (InHandler(i) /\ srv[i].req[1].path # "/callback") => srv[i].cb = NoCallback

(***************************************************************************)
(* SpecWriters: processes that call set_tokens and set_client_info on one   *)
(* record file, each call taken in the steps of its body: the read and the  *)
(* assignment (oauth.py:65-66, 79-80), write_text (50) and chmod (51).      *)
(***************************************************************************)
Writers == Instances

\* lines 65-66: data = self._read(); data["tokens"] = tokens.model_dump(...)
WriterSetTokens(w, s, tokens) ==
    /\ writer[w].pc = "idle"
    /\ LET r == _read(file[s]) IN
       writer' = [writer EXCEPT ![w] =
          IF r.kind = "raise"
          THEN [IdleWriter EXCEPT !.pc = "done", !.op = "set_tokens", !.name = s, !.out = r]
          ELSE IF r.val[1].kind # "obj"
          THEN [IdleWriter EXCEPT !.pc = "done", !.op = "set_tokens", !.name = s,
                                  !.out = Raise("TypeError")]
          ELSE [IdleWriter EXCEPT !.pc = "read", !.op = "set_tokens", !.name = s,
                   !.top = TopObj(SetKey(r.val[1].obj, "tokens", TokensDump(tokens)))]]
    /\ UNCHANGED <<file, storeRet, srv, future, ready, call, mgr, agent>>

\* lines 79-80: data = self._read(); data["client_info"] = client_info.model_dump(...)
WriterSetClientInfo(w, s, client_info) ==
    /\ writer[w].pc = "idle"
    /\ LET r == _read(file[s]) IN
       writer' = [writer EXCEPT ![w] =
          IF r.kind = "raise"
          THEN [IdleWriter EXCEPT !.pc = "done", !.op = "set_client_info", !.name = s, !.out = r]
          ELSE IF r.val[1].kind # "obj"
          THEN [IdleWriter EXCEPT !.pc = "done", !.op = "set_client_info", !.name = s,
                                  !.out = Raise("TypeError")]
          ELSE [IdleWriter EXCEPT !.pc = "read", !.op = "set_client_info", !.name = s,
                   !.top = TopObj(SetKey(r.val[1].obj, "client_info",
                                         ClientInfoDump(client_info)))]]
    /\ UNCHANGED <<file, storeRet, srv, future, ready, call, mgr, agent>>

\* a write that puts its one entry into the record as it is on disk by then
WriterWriteText_merging(w, cmode) ==
    /\ writer[w].pc = "read"
    /\ LET s == writer[w].name
           key == IF writer[w].op = "set_tokens" THEN "tokens" ELSE "client_info"
           now == IF ParseableRecord(file[s]) THEN file[s].data.top.obj ELSE <<>>
       IN  /\ file' = [file EXCEPT ![s] =
                          WriteText(@, TopObj(SetKey(now, key, writer[w].top.obj[key])), cmode)]
           /\ writer' = [writer EXCEPT ![w].pc = "written"]
    /\ UNCHANGED <<storeRet, srv, future, ready, call, mgr, agent>>

\* line 50: self._path.write_text(json.dumps(data, indent=2))
WriterWriteText(w, cmode) ==
    /\ writer[w].pc = "read"
    /\ LET s == writer[w].name IN
       IF file[s].exists /\ ~OwnerWritable(file[s].mode)
       THEN /\ writer' = [writer EXCEPT ![w].pc = "done", ![w].out = Raise("PermissionError")]
            /\ UNCHANGED file
       ELSE /\ file' = [file EXCEPT ![s] = WriteText(@, writer[w].top, cmode)]
            /\ writer' = [writer EXCEPT ![w].pc = "written"]
    /\ UNCHANGED <<storeRet, srv, future, ready, call, mgr, agent>>

\* line 51: self._path.chmod(0o600), and the setter returns
WriterChmod(w) ==
    /\ writer[w].pc = "written"
    /\ file' = [file EXCEPT ![writer[w].name] = Chmod(@, "0600")]
    /\ writer' = [writer EXCEPT ![w].pc = "done"]
    /\ UNCHANGED <<storeRet, srv, future, ready, call, mgr, agent>>

\* the process goes on to other work
WriterReturns(w) ==
    /\ writer[w].pc = "done"
    /\ writer' = [writer EXCEPT ![w] = IdleWriter]
    /\ UNCHANGED <<file, storeRet, srv, future, ready, call, mgr, agent>>

InitWriters ==
    /\ file = [s \in ServerNames |-> NoFile]
    /\ storeRet = NoStoreCall
    /\ srv = [i \in Instances |-> NoServer]
    /\ future = [i \in Instances |-> PendingFuture]
    /\ ready = <<>>
    /\ call = [c \in Calls |-> IdleCall]
    /\ NoWriters /\ NoManager /\ NoAgent

NextWriters ==
    \/ \E w \in Writers, tokens \in FlowCredentials : WriterSetTokens(w, ConcurrentName, tokens)
    \/ \E w \in Writers, ci \in FlowClientInfos : WriterSetClientInfo(w, ConcurrentName, ci)
    \/ \E w \in Writers, m \in CreateModes : WriterWriteText(w, m)
    \/ \E w \in Writers : WriterChmod(w)
    \/ \E w \in Writers : WriterReturns(w)

SpecWriters == InitWriters /\ [][NextWriters]_vars

WriterKey(w) == IF writer[w].op = "set_tokens" THEN "tokens" ELSE "client_info"

\* C23: a writer's write_text replaces the whole record by what that writer
\* read, plus its own entry: an entry another writer stored between this
\* writer's read and its write is gone afterwards, and nothing in the store
\* keeps two writers from interleaving that way.
C23_WriteReplacesWholeRecord ==
    [][ \A w \in Writers :
            (writer[w].pc = "read" /\ writer'[w].pc = "written") =>
                LET s == writer[w].name IN
                /\ file'[s].data = DataJson(writer[w].top)
                /\ \A key \in {"tokens", "client_info"} :
                      HasEntry(file'[s], key) <=> key \in DOMAIN writer[w].top.obj
                /\ \A key \in {"tokens", "client_info"} \ {WriterKey(w)} :
                      (HasEntry(file[s], key) /\ key \notin DOMAIN writer[w].top.obj)
                          => ~HasEntry(file'[s], key)
      ]_vars

\* set_tokens and set_client_info have both returned None, in two processes,
\* and the record holds the client_info entry but no tokens entry
C23_Witness ==
    \E w \in Writers, v \in Writers :
        /\ writer[w].pc = "done" /\ writer[w].op = "set_tokens"
        /\ writer[w].out = ReturnNone
        /\ writer[v].pc = "done" /\ writer[v].op = "set_client_info"
        /\ writer[v].out = ReturnNone
        /\ writer[w].name = writer[v].name
        /\ HasEntry(file[writer[w].name], "client_info")
        /\ ~HasEntry(file[writer[w].name], "tokens")

\* C28: in every state, inside set_tokens and set_client_info too, a record
\* file that holds a tokens or client_info entry has the permission bits
\* 0600.
C28_SecretNeverExposed ==
    \A s \in ServerNames :
        (HasEntry(file[s], "tokens") \/ HasEntry(file[s], "client_info"))
            => file[s].mode = "0600"

(***************************************************************************)
(* SpecConnect: ConnectionManager (src/src/agent_mcp/mcp_client.py) with    *)
(* connect calls awaited one after another.  A session is a positive        *)
(* number; sessions[s] = 0 says that s has no entry in _sessions.           *)
(***************************************************************************)
Transports == {"stdio", "http", "sse"}

NoConnectRunning == \A d \in Instances : mgr.task[d].pc # "connecting"

\* connect that never looks into _sessions
ConnectBegin_not_caching(c, s, transport) ==
    /\ mgr.task[c].pc = "idle"
    /\ mgr' = [mgr EXCEPT !.task[c] =
          IF transport \notin {"stdio", "http"}
          THEN [pc |-> "done", name |-> s, transport |-> transport,
                out |-> RaiseMsg("ValueError", <<"Unknown transport: ", transport>>)]
          ELSE [pc |-> "connecting", name |-> s, transport |-> transport,
                out |-> ReturnNone]]
    /\ UNCHANGED <<file, storeRet, srv, future, ready, call, writer, agent>>

\* lines 56-65: the cached session is returned, an unknown transport raises,
\* otherwise the connection is awaited
ConnectBegin(c, s, transport) ==
    /\ mgr.task[c].pc = "idle"
    /\ mgr' = [mgr EXCEPT !.task[c] =
          IF mgr.sessions[s] # 0
          THEN [pc |-> "done", name |-> s, transport |-> transport,
                out |-> Return(mgr.sessions[s])]
          ELSE IF transport \notin {"stdio", "http"}
          THEN [pc |-> "done", name |-> s, transport |-> transport,
                out |-> RaiseMsg("ValueError", <<"Unknown transport: ", transport>>)]
          ELSE [pc |-> "connecting", name |-> s, transport |-> transport,
                out |-> ReturnNone]]
    /\ UNCHANGED <<file, storeRet, srv, future, ready, call, writer, agent>>

AwaitedConnect(c, s, transport) == NoConnectRunning /\ ConnectBegin(c, s, transport)

\* lines 25-52 and 67-69: the session is entered on the exit stack and
\* initialized, stored under the name and returned
ConnectEstablished(c) ==
    /\ mgr.task[c].pc = "connecting"
    /\ mgr.nsessions < MaxConnects
    /\ LET s == mgr.task[c].name
           id == mgr.nsessions + 1
       IN  mgr' = [mgr EXCEPT !.nsessions = id,
                              !.opened[s] = @ + 1,
                              !.sessions[s] = id,
                              !.task[c].pc = "done",
                              !.task[c].out = Return(id)]
    /\ UNCHANGED <<file, storeRet, srv, future, ready, call, writer, agent>>

\* lines 25-52: the transport cannot be opened (atInitialize = FALSE), or
\* session.initialize() raises after the session was entered on the exit
\* stack (atInitialize = TRUE)
ConnectFails(c, atInitialize) ==
    /\ mgr.task[c].pc = "connecting"
    /\ atInitialize => mgr.nsessions < MaxConnects
    /\ LET s == mgr.task[c].name IN
       mgr' = [mgr EXCEPT !.nsessions = IF atInitialize THEN @ + 1 ELSE @,
                          !.opened[s] = IF atInitialize THEN @ + 1 ELSE @,
                          !.task[c].pc = "done",
                          !.task[c].out = Raise("ConnectError")]
    /\ UNCHANGED <<file, storeRet, srv, future, ready, call, writer, agent>>

\* the caller has the session or the exception
ConnectReturns(c) ==
    /\ mgr.task[c].pc = "done"
    /\ mgr' = [mgr EXCEPT !.task[c] = IdleConnect]
    /\ UNCHANGED <<file, storeRet, srv, future, ready, call, writer, agent>>

\* lines 83-87: cleanup closes the exit stack and clears _sessions
Cleanup ==
    /\ NoConnectRunning
    /\ \E s \in ServerNames : mgr.opened[s] # 0
    /\ mgr' = [mgr EXCEPT !.sessions = [s \in ServerNames |-> 0],
                          !.opened = [s \in ServerNames |-> 0]]
    /\ UNCHANGED <<file, storeRet, srv, future, ready, call, writer, agent>>

InitConnect ==
    /\ file = [s \in ServerNames |-> NoFile]
    /\ storeRet = NoStoreCall
    /\ srv = [i \in Instances |-> NoServer]
    /\ future = [i \in Instances |-> PendingFuture]
    /\ ready = <<>>
    /\ call = [c \in Calls |-> IdleCall]
    /\ NoWriters /\ NoManager /\ NoAgent

NextConnect ==
    \/ \E c \in Instances, s \in ServerNames, tr \in Transports : AwaitedConnect(c, s, tr)
    \/ \E c \in Instances : ConnectEstablished(c)
    \/ \E c \in Instances, atInitialize \in BOOLEAN : ConnectFails(c, atInitialize)
    \/ \E c \in Instances : ConnectReturns(c)
    \/ Cleanup

SpecConnect == InitConnect /\ [][NextConnect]_vars

\* C24: with connect calls made one after another, a connect for a name that
\* has a session returns that session and opens nothing; a connect for a
\* name without one opens exactly one session, stores it and returns it; a
\* connect that raises leaves _sessions as it was.
C24_ConnectLazyAndCaching ==
    [][ \A c \in Instances :
          LET was == mgr.task[c]
              now == mgr'.task[c]
          IN
          /\ (was.pc = "idle" /\ now.pc # "idle" /\ mgr.sessions[now.name] # 0) =>
                /\ now.pc = "done"
                /\ now.out = Return(mgr.sessions[now.name])
                /\ mgr'.sessions = mgr.sessions
                /\ mgr'.opened = mgr.opened
                /\ mgr'.nsessions = mgr.nsessions
          /\ (was.pc = "idle" /\ now.pc # "idle" /\ mgr.sessions[now.name] = 0) =>
                /\ mgr'.sessions = mgr.sessions
                /\ mgr'.opened = mgr.opened
          /\ (was.pc # "done" /\ now.pc = "done" /\ now.out.kind = "raise") =>
                mgr'.sessions = mgr.sessions
          /\ (was.pc = "connecting" /\ now.pc = "done" /\ now.out.kind = "return") =>
                /\ mgr.sessions[was.name] = 0
                /\ mgr'.sessions[was.name] # 0
                /\ now.out = Return(mgr'.sessions[was.name])
                /\ mgr'.opened[was.name] = mgr.opened[was.name] + 1
                /\ \A s \in ServerNames \ {was.name} :
                      /\ mgr'.sessions[s] = mgr.sessions[s]
                      /\ mgr'.opened[s] = mgr.opened[s]
      ]_vars

\* two connect calls for one name have returned the same session, the only
\* one the manager ever opened
C24_Witness ==
    \E c \in Instances, d \in Instances :
        /\ c # d
        /\ mgr.task[c].pc = "done" /\ mgr.task[d].pc = "done"
        /\ mgr.task[c].name = mgr.task[d].name
        /\ mgr.task[c].out = Return(1) /\ mgr.task[d].out = Return(1)
        /\ mgr.sessions[mgr.task[c].name] = 1
        /\ mgr.nsessions = 1

(***************************************************************************)
(* SpecAgent: run_agent (src/src/agent_mcp/agent.py).  A text is the tuple  *)
(* of the parts the code joins or formats.                                  *)
(***************************************************************************)
TextBlock(text) == [type |-> "text", text |-> text, id |-> "", name |-> ""]
ToolUseBlock(id, name) == [type |-> "tool_use", text |-> "", id |-> id, name |-> name]

Blocks == { TextBlock("t"), ToolUseBlock("a", "toolA"), ToolUseBlock("b", "toolB") }
Contents == SeqsUpTo(Blocks, MaxBlocks)
Responses ==
    { [stop_reason |-> r, content |-> c] :
        r \in {"tool_use", "end_turn", "max_tokens"}, c \in Contents }

\* what call_tool gives: a result, a result with isError, or an exception
ToolOutcomes == {"ok", "isError", "raise"}

\* app_config.max_iterations; None: the object has no such attribute, as the
\* AppConfig of config.py (its field is max_llm_calls)
MaxIterationsValues == {None} \cup { Some(n) : n \in 0..MaxIterations }

\* lines 121-123: f"[{server_config.name}] Error: {e}"
ErrorText(name, e) == <<"[", name, "] Error: ", e>>

\* line 119
MaxIterationsText(name, n) == <<"[", name, "] Agent reached max iterations (", n, ")">>

\* lines 108-112: the texts of the blocks that have one, joined
RECURSIVE FinalText(_)
FinalText(content) ==
    IF content = <<>> THEN <<>>
    ELSE (IF Head(content).type = "text" THEN <<Head(content).text>> ELSE <<>>)
             \o FinalText(Tail(content))

\* lines 27-37 and 94: the text of one tool_result
ToolText(block, outcome) ==
    IF outcome = "ok" THEN <<"r">>
    ELSE IF outcome = "isError" THEN <<"[Tool Error] ", "r">>
    ELSE <<"[Error calling tool ", block.name, "]: ", "boom">>

\* lines 99-103
ToolResult(block, outcome) ==
    [type |-> "tool_result", tool_use_id |-> block.id, content |-> ToolText(block, outcome)]

\* run_agent is called
AgentStart(s, maxit) ==
    /\ agent.pc = "idle"
    /\ agent' = [IdleAgent EXCEPT !.pc = "listing", !.name = s, !.max_iterations = maxit]
    /\ UNCHANGED <<file, storeRet, srv, future, ready, call, writer, mgr>>

\* lines 49-61: the tools are listed, the client and the first message are
\* made, and range(app_config.max_iterations) is evaluated
AgentSetup ==
    /\ agent.pc = "listing"
    /\ agent' = IF agent.max_iterations = None
                THEN [agent EXCEPT !.pc = "done",
                         !.out = Return(ErrorText(agent.name, "AttributeError"))]
                ELSE [agent EXCEPT !.pc = "loop", !.nmessages = 1]
    /\ UNCHANGED <<file, storeRet, srv, future, ready, call, writer, mgr>>

\* an exception of list_tools or of anthropic.Anthropic() that leaves run_agent
AgentSetupRaises_propagating ==
    /\ agent.pc = "listing"
    /\ agent' = [agent EXCEPT !.pc = "done", !.out = Raise("boom")]
    /\ UNCHANGED <<file, storeRet, srv, future, ready, call, writer, mgr>>

\* lines 49, 56 and 121-123: list_tools or anthropic.Anthropic() raises
AgentSetupRaises ==
    /\ agent.pc = "listing"
    /\ agent' = [agent EXCEPT !.pc = "done", !.out = Return(ErrorText(agent.name, "boom"))]
    /\ UNCHANGED <<file, storeRet, srv, future, ready, call, writer, mgr>>

\* the response of one model call taken into the loop
AfterResponse(a, resp) ==
    IF resp.stop_reason = "tool_use"
    THEN [a EXCEPT !.pc = "tools", !.ncalls = @ + 1, !.response = Some(resp),
                   !.nmessages = @ + 1, !.pending = resp.content, !.tool_results = <<>>]
    ELSE [a EXCEPT !.pc = "done", !.ncalls = @ + 1, !.response = Some(resp),
                   !.nmessages = @ + 1, !.out = Return(FinalText(resp.content))]

\* a model call made whatever the number of calls before it
AgentModelCall_unbounded(resp) ==
    /\ agent.pc = "loop"
    /\ agent' = AfterResponse(agent, resp)
    /\ UNCHANGED <<file, storeRet, srv, future, ready, call, writer, mgr>>

\* lines 61-75 and 106-117: one iteration's model call and its response
AgentModelCall(resp) ==
    /\ agent.pc = "loop"
    /\ agent.ncalls < agent.max_iterations[1]
    /\ agent' = AfterResponse(agent, resp)
    /\ UNCHANGED <<file, storeRet, srv, future, ready, call, writer, mgr>>

\* lines 64-69 and 121-123: client.messages.create raises
AgentModelRaises ==
    /\ agent.pc = "loop"
    /\ agent.ncalls < agent.max_iterations[1]
    /\ agent' = [agent EXCEPT !.pc = "done", !.ncalls = @ + 1, !.response = None,
                              !.out = Return(ErrorText(agent.name, "boom"))]
    /\ UNCHANGED <<file, storeRet, srv, future, ready, call, writer, mgr>>

\* line 119: the range is exhausted
AgentMaxIterations ==
    /\ agent.pc = "loop"
    /\ agent.ncalls = agent.max_iterations[1]
    /\ agent' = [agent EXCEPT !.pc = "done",
                    !.out = Return(MaxIterationsText(agent.name, agent.max_iterations[1]))]
    /\ UNCHANGED <<file, storeRet, srv, future, ready, call, writer, mgr>>

\* a tool call whose exception ends the loop
AgentToolCall_aborting(outcome) ==
    /\ agent.pc = "tools"
    /\ agent.pending # <<>>
    /\ Head(agent.pending).type = "tool_use"
    /\ agent' = IF outcome = "raise"
                THEN [agent EXCEPT !.pc = "done",
                                   !.out = Return(ErrorText(agent.name, "boom"))]
                ELSE [agent EXCEPT !.pending = Tail(@),
                         !.tool_results = Append(@, ToolResult(Head(agent.pending), outcome))]
    /\ UNCHANGED <<file, storeRet, srv, future, ready, call, writer, mgr>>

\* lines 76-103: the next block is a tool_use block: the tool is called and
\* its tool_result appended
AgentToolCall(outcome) ==
    /\ agent.pc = "tools"
    /\ agent.pending # <<>>
    /\ Head(agent.pending).type = "tool_use"
    /\ agent' = [agent EXCEPT !.pending = Tail(@),
                    !.tool_results = Append(@, ToolResult(Head(agent.pending), outcome))]
    /\ UNCHANGED <<file, storeRet, srv, future, ready, call, writer, mgr>>

\* lines 76-77: the next block is of another type
AgentSkipBlock ==
    /\ agent.pc = "tools"
    /\ agent.pending # <<>>
    /\ Head(agent.pending).type # "tool_use"
    /\ agent' = [agent EXCEPT !.pending = Tail(@)]
    /\ UNCHANGED <<file, storeRet, srv, future, ready, call, writer, mgr>>

\* line 105: messages.append({"role": "user", "content": tool_results})
AgentAppendResults ==
    /\ agent.pc = "tools"
    /\ agent.pending = <<>>
    /\ agent' = [agent EXCEPT !.pc = "loop", !.nmessages = @ + 1]
    /\ UNCHANGED <<file, storeRet, srv, future, ready, call, writer, mgr>>

InitAgent ==
    /\ file = [s \in ServerNames |-> NoFile]
    /\ storeRet = NoStoreCall
    /\ srv = [i \in Instances |-> NoServer]
    /\ future = [i \in Instances |-> PendingFuture]
    /\ ready = <<>>
    /\ call = [c \in Calls |-> IdleCall]
    /\ NoWriters /\ NoManager /\ NoAgent

NextAgent ==
    \/ \E maxit \in MaxIterationsValues : AgentStart(ConcurrentName, maxit)
    \/ AgentSetup
    \/ AgentSetupRaises
    \/ \E resp \in Responses : AgentModelCall(resp)
    \/ AgentModelRaises
    \/ AgentMaxIterations
    \/ \E outcome \in ToolOutcomes : AgentToolCall(outcome)
    \/ AgentSkipBlock
    \/ AgentAppendResults

SpecAgent == InitAgent /\ [][NextAgent]_vars

\* the number of model calls the call may still make
CallsLeft(a) == IF a.max_iterations = None THEN 0 ELSE a.max_iterations[1] - a.ncalls

\* a number that every step of run_agent makes smaller
AgentMeasure(a) ==
    IF a.pc = "done" THEN 0
    ELSE IF a.pc = "loop" THEN CallsLeft(a) * (MaxBlocks + 3) + 1
    ELSE IF a.pc = "tools" THEN CallsLeft(a) * (MaxBlocks + 3) + Len(a.pending) + 2
    ELSE (MaxIterations + 1) * (MaxBlocks + 3)

\* the step is a model call that got a response
GotResponse == agent'.ncalls = agent.ncalls + 1 /\ agent'.response # None

IsToolUse(block) == block.type = "tool_use"
ToolUseBlocks(content) == SelectSeq(content, IsToolUse)

\* C26: when the user message is appended after a tool_use response, it
\* holds one tool_result for each tool_use block of that response, in the
\* blocks' order and with their ids; a tool call that raises adds the error
\* text as that block's tool_result and the loop goes on to the next block.
C26_OneResultPerToolUse ==
    [][ /\ (agent.pc = "tools" /\ agent'.pc = "loop") =>
              LET blocks == ToolUseBlocks(agent.response[1].content) IN
              /\ agent'.tool_results = agent.tool_results
              /\ agent'.nmessages = agent.nmessages + 1
              /\ Len(agent.tool_results) = Len(blocks)
              /\ \A k \in 1..Len(blocks) :
                    /\ agent.tool_results[k].type = "tool_result"
                    /\ agent.tool_results[k].tool_use_id = blocks[k].id
                    /\ agent.tool_results[k] \in
                          { ToolResult(blocks[k], o) : o \in ToolOutcomes }
        /\ (agent.pc = "tools" /\ agent.pending # <<>>) =>
              /\ agent'.pc = "tools"
              /\ agent'.pending = Tail(agent.pending)
              /\ IsToolUse(Head(agent.pending)) =>
                    /\ Len(agent'.tool_results) = Len(agent.tool_results) + 1
                    /\ agent'.tool_results[Len(agent'.tool_results)].tool_use_id
                          = Head(agent.pending).id
              /\ ~IsToolUse(Head(agent.pending)) => agent'.tool_results = agent.tool_results
      ]_vars

\* the user message is about to be appended with two tool_results, the first
\* of them the error text of a tool call that raised
C26_Witness ==
    /\ agent.pc = "tools"
    /\ agent.pending = <<>>
    /\ agent.response[1].content = <<ToolUseBlock("a", "toolA"), ToolUseBlock("b", "toolB")>>
    /\ agent.tool_results =
          <<ToolResult(ToolUseBlock("a", "toolA"), "raise"),
            ToolResult(ToolUseBlock("b", "toolB"), "ok")>>

\* the text is the error text of some exception
IsErrorText(name, text) ==
    /\ Len(text) = 4
    /\ text[1] = "[" /\ text[2] = name /\ text[3] = "] Error: "

C30_ResponseBeforeResolution ==
    [][ /\ Len(ready') > Len(ready) =>
              LET e == ready'[Len(ready')]
                  i == e.srv
              IN  /\ InHandler(i)
                  /\ srv[i].resps # <<>>
                  /\ LastResponse(i) = do_GET(srv[i].req[1]).resp
                  /\ e.cb = do_GET(srv[i].req[1]).cb
                  /\ srv'[i].resps = srv[i].resps
        /\ \A i \in Instances :
              /\ InHandler(i) =>
                    /\ srv'[i].thread \in {"handling", "serving"}
                    /\ srv'[i].resps = srv[i].resps
              /\ (srv[i].stop = "waiting" /\ srv'[i].stop = "done") =>
                    srv[i].thread = "exited"
      ]_vars

\* the call is inside stop() while the handler, its success page written,
\* has yet to return
C30_Witness ==
    \E c \in Calls :
        /\ call[c].pc = "stopping"
        /\ srv[c].stop = "waiting"
        /\ InHandler(c)
        /\ LastResponse(c) = Response(200, "success", "")

(***************************************************************************)
(* A request with both an error and a code, checked under SpecCallback.    *)
(***************************************************************************)
\* the request carries an error and a code, both with a value
CarriesBoth(req) == Carries(req, "error") /\ Carries(req, "code")

\* C31: when one GET request carries both an error and a code, the error
\* wins: the response is 400 with the failure page of that error, the
\* callback handed to the loop rejects the waiter with that error, and an
\* unresolved waiter is rejected with it and never resolved with the code.
C31_ErrorWinsOverCode ==
    [][ LET i == TestInstance IN
        /\ ( (InHandler(i) /\ CarriesBoth(srv[i].req[1]))
                => /\ LastResponse(i).status = 400
                   /\ LastResponse(i)
                        = Response(400, "failed", FirstValue(srv[i].req[1], "error"))
                   /\ srv[i].cb = SetException(FirstValue(srv[i].req[1], "error")) )'
        /\ ( /\ InHandler(i)
             /\ CarriesBoth(srv[i].req[1])
             /\ srv'[i].thread = "serving" )
                => /\ Len(ready') = Len(ready) + 1
                   /\ ready'[Len(ready')].srv = i
                   /\ ready'[Len(ready')].cb.fn = "set_exception"
                   /\ ready'[Len(ready')].cb.error = FirstValue(srv[i].req[1], "error")
        /\ ( /\ InHandler(i)
             /\ CarriesBoth(srv[i].req[1])
             /\ Unresolved(i)
             /\ srv'[i].thread = "serving" )
                => /\ future'[i].state = "pending"
                   /\ \A k \in 1..Len(ready') :
                          ready'[k].srv = i => ready'[k].cb.fn # "set_result"
      ]_vars

\* a request with error=x and code=y is in the handler, answered 400 with x
C31_Witness ==
    /\ InHandler(TestInstance)
    /\ CarriesBoth(srv[TestInstance].req[1])
    /\ FirstValue(srv[TestInstance].req[1], "code") = "y"
    /\ Unresolved(TestInstance)
    /\ LastResponse(TestInstance) = Response(400, "failed", "x")
    /\ srv[TestInstance].cb = SetException("x")

(***************************************************************************)
(* The setters under concurrent calls, checked under SpecConcurrent.       *)
(***************************************************************************)
\* the entry of the record under key, None when the record has no such entry
EntryOf(f, key) == IF HasEntry(f, key) THEN Some(f.data.top.obj[key]) ELSE None

\* C32: set_tokens and set_client_info run without a suspension point, so
\* that under any interleaving of the calls of one event loop for the same
\* server a setter leaves the sibling entry as it was and stores its own
\* value, and nothing else changes the record: the record holds the last
\* tokens written and the last client_info written.
C32_SettersKeepSiblings ==
    [][ LET s == ConcurrentName IN
        /\ \A c \in Calls :
                (call[c].pc = "exchange" /\ call'[c].pc = "stored")
                    => \A tok \in ConcurrentCredentials, m \in CreateModes :
                          ProviderExchange(c, tok, m)
                              => /\ EntryOf(file'[s], "tokens") = Some(TokensDump(tok))
                                 /\ EntryOf(file'[s], "client_info")
                                      = EntryOf(file[s], "client_info")
        /\ \A c \in Calls :
                (call[c].pc = "handshake" /\ call'[c].pc = "authorize")
                    => \A ci \in ConcurrentClientInfos, m \in CreateModes :
                          ProviderRegister(c, ci, m)
                              => /\ EntryOf(file'[s], "client_info") = Some(ClientInfoDump(ci))
                                 /\ EntryOf(file'[s], "tokens") = EntryOf(file[s], "tokens")
        /\ ( \/ EntryOf(file'[s], "tokens") # EntryOf(file[s], "tokens")
             \/ EntryOf(file'[s], "client_info") # EntryOf(file[s], "client_info") )
                => \E c \in Calls :
                      \/ call[c].pc = "exchange" /\ call'[c].pc = "stored"
                      \/ call[c].pc = "handshake" /\ call'[c].pc = "authorize"
      ]_vars

\* two calls for the same server have both stored their tokens, the second
\* one another credential than the first, and the registration is still there
C32_Witness ==
    \E c \in Calls, d \in Calls :
        /\ c # d
        /\ call[c].name = ConcurrentName /\ call[d].name = ConcurrentName
        /\ call[c].pc = "done" /\ call[c].out = Return("tokB")
        /\ call[d].pc = "stored"
        /\ EntryOf(file[ConcurrentName], "tokens")
              = Some(TokensDump([RichCredential EXCEPT !.access_token = "tokA"]))
        /\ EntryOf(file[ConcurrentName], "client_info") # None

(***************************************************************************)
(* The cache-hit decision, checked under Spec.                             *)
(***************************************************************************)
\* the cached credential has an expiry or a refresh_token
Refreshable(f) ==
    /\ HoldsCredential(f)
    /\ \/ TokensOf(f.data.top.obj["tokens"]).expires_in # None
       \/ TokensOf(f.data.top.obj["tokens"]).refresh_token # None

\* C33: a call of ensure_oauth_token is a cache hit exactly when the record
\* holds a parseable tokens entry; a cached credential that has an expiry
\* (however long ago it was stored) or a refresh_token is returned as it is:
\* the call ends in that step with the stored access_token, the record is
\* not rewritten, no callback server is created and no preflight is issued.
C33_CacheHitIgnoresExpiry ==
    [][ \A c \in Calls, s \in ServerNames :
            Begins(c, s)
                => /\ call'[c].hit <=> HoldsCredential(file[s])
                   /\ Refreshable(file[s])
                        => /\ call'[c].pc = "done"
                           /\ call'[c].hit
                           /\ call'[c].out = Return(StoredAccessToken(file[s]))
                           /\ call'[c].nserver = 0
                           /\ call'[c].npost = 0
                           /\ file' = file
                           /\ srv'[c] = srv[c]
                           /\ future'[c] = future[c]
      ]_vars

\* a call returned from the cache a credential that has an expiry and a
\* refresh_token, and the record still holds that credential
C33_Witness ==
    \E c \in Calls :
        /\ call[c].pc = "done"
        /\ call[c].hit
        /\ call[c].nserver = 0
        /\ Refreshable(file[call[c].name])
        /\ TokensOf(file[call[c].name].data.top.obj["tokens"]) = RichCredential
        /\ call[c].out = Return(RichCredential.access_token)

(***************************************************************************)
(* SpecConnectConcurrent: several tasks of one event loop inside           *)
(* ConnectionManager.connect (through list_tools or call_tool) at once.    *)
(* A task is suspended between the lookup in _sessions and the store of    *)
(* its session, while the transport is opened and initialized.             *)
(***************************************************************************)
NextConnectConcurrent ==
    \/ \E c \in Instances, s \in ServerNames, tr \in Transports : ConnectBegin(c, s, tr)
    \/ \E c \in Instances : ConnectEstablished(c)
    \/ \E c \in Instances, atInitialize \in BOOLEAN : ConnectFails(c, atInitialize)
    \/ \E c \in Instances : ConnectReturns(c)
    \/ Cleanup

SpecConnectConcurrent == InitConnect /\ [][NextConnectConcurrent]_vars

\* task c gets the session it has opened and initialized, in this step
Establishes(c) ==
    /\ mgr.task[c].pc = "connecting"
    /\ mgr'.task[c].pc = "done"
    /\ mgr'.task[c].out.kind = "return"

\* C34: at most one connection is established per server name, also when
\* several tasks are inside connect for the same unconnected server: a
\* session is established only for a name that has none, and a session that
\* is open on the exit stack stays the one stored under its name.
C34_AtMostOneConnectionPerName ==
    [][ /\ \A c \in Instances :
              Establishes(c) => mgr.sessions[mgr.task[c].name] = 0
        /\ \A s \in ServerNames :
              (mgr.sessions[s] # 0 /\ mgr'.opened[s] # 0)
                  => mgr'.sessions[s] = mgr.sessions[s]
      ]_vars

====
